---- MODULE Spec2Model ----
(***************************************************************************)
(* Model of the kaia document-generation scripts: the version numbering of *)
(* the two master orchestrators, the orchestrators' stage chains and the   *)
(* start-up of the generation stage scripts.                               *)
(*                                                                         *)
(* File names and version suffixes are sequences of characters (each       *)
(* character a one-element string; "sup2" stands for the single character  *)
(* U+00B2 SUPERSCRIPT TWO), so that startswith / replace / split / isdigit *)
(* / int are computed as Python computes them.                             *)
(***************************************************************************)
EXTENDS Integers, Sequences, FiniteSets, TLC

\* ------------------------------------------------------------------------
\* Bounds of the model
\* ------------------------------------------------------------------------
MaxFiles == 3

\* ------------------------------------------------------------------------
\* Python string primitives on character sequences
\* ------------------------------------------------------------------------
DecimalChars == {"0", "1", "2", "3", "4", "5", "6", "7", "8", "9"}

\* characters for which str.isdigit() is true: the decimal digits and the
\* digits of Numeric_Type=Digit such as U+00B2
IsDigitChars == DecimalChars \cup {"sup2"}

DigitValue(c) ==
    CASE c = "0" -> 0 [] c = "1" -> 1 [] c = "2" -> 2 [] c = "3" -> 3
      [] c = "4" -> 4 [] c = "5" -> 5 [] c = "6" -> 6 [] c = "7" -> 7
      [] c = "8" -> 8 [] c = "9" -> 9

DigitChar(d) ==
    CASE d = 0 -> "0" [] d = 1 -> "1" [] d = 2 -> "2" [] d = 3 -> "3"
      [] d = 4 -> "4" [] d = 5 -> "5" [] d = 6 -> "6" [] d = 7 -> "7"
      [] d = 8 -> "8" [] d = 9 -> "9"

\* str.startswith
StartsWith(s, p) == Len(s) >= Len(p) /\ SubSeq(s, 1, Len(p)) = p

\* str.endswith
EndsWith(s, p) == Len(s) >= Len(p) /\ SubSeq(s, Len(s) - Len(p) + 1, Len(s)) = p

\* str.replace(old, new): every non-overlapping occurrence, left to right
RECURSIVE StrReplace(_, _, _)
StrReplace(s, old, new) ==
    IF Len(s) = 0 THEN << >>
    ELSE IF StartsWith(s, old)
         THEN new \o StrReplace(SubSeq(s, Len(old) + 1, Len(s)), old, new)
         ELSE <<Head(s)>> \o StrReplace(Tail(s), old, new)

\* the first position from i on at which sub occurs in s, 0 for none
FindFrom(s, sub, i) ==
    LET at == {j \in i..(Len(s) - Len(sub) + 1) :
                 SubSeq(s, j, j + Len(sub) - 1) = sub}
    IN  IF at = {} THEN 0 ELSE CHOOSE j \in at : \A k \in at : j <= k

\* str.split(sep): the list of parts, empty parts included
RECURSIVE StrSplit(_, _)
StrSplit(s, sep) ==
    LET i == FindFrom(s, sep, 1)
    IN  IF i = 0 THEN <<s>>
        ELSE <<SubSeq(s, 1, i - 1)>>
               \o StrSplit(SubSeq(s, i + Len(sep), Len(s)), sep)

\* str.isdigit(): non-empty and every character a digit character
IsDigit(s) == Len(s) > 0 /\ \A i \in 1..Len(s) : s[i] \in IsDigitChars

\* int(s): the decimal value; ValueError for a character that is no decimal
RECURSIVE DecimalValue(_)
DecimalValue(s) ==
    IF Len(s) = 0 THEN 0
    ELSE 10 * DecimalValue(SubSeq(s, 1, Len(s) - 1)) + DigitValue(s[Len(s)])

IntOf(s) ==
    IF Len(s) > 0 /\ \A i \in 1..Len(s) : s[i] \in DecimalChars
    THEN [raised |-> FALSE, value |-> DecimalValue(s)]
    ELSE [raised |-> TRUE, value |-> 0]

\* str(n) for n >= 0
RECURSIVE StrOfInt(_)
StrOfInt(n) ==
    IF n < 10 THEN <<DigitChar(n)>>
    ELSE StrOfInt(n \div 10) \o <<DigitChar(n % 10)>>

\* PurePath.stem: the name without its last suffix
RECURSIVE LastDot(_, _)
LastDot(s, i) == IF i = 0 THEN 0 ELSE IF s[i] = "." THEN i ELSE LastDot(s, i - 1)

Stem(name) ==
    LET i == LastDot(name, Len(name))
    IN  IF i > 1 /\ i < Len(name) THEN SubSeq(name, 1, i - 1) ELSE name

SetMax(S) == CHOOSE m \in S : \A x \in S : x <= m

\* ------------------------------------------------------------------------
\* Character sequences of the names the scripts use
\* ------------------------------------------------------------------------
Sv == <<"_", "v">>
Smd == <<".", "m", "d">>
Sprd == <<"p", "r", "d">>
Saction_plan == <<"a", "c", "t", "i", "o", "n", "_", "p", "l", "a", "n">>
Stechnical_specification ==
    <<"t", "e", "c", "h", "n", "i", "c", "a", "l", "_",
      "s", "p", "e", "c", "i", "f", "i", "c", "a", "t", "i", "o", "n">>

\* the base_filename arguments of the root master_auto.py
BaseFilenames == {Sprd \o Smd, Stechnical_specification \o Smd, Saction_plan \o Smd}

\* ------------------------------------------------------------------------
\* get_next_version of the root master_auto.py
\* ------------------------------------------------------------------------
\* the version numbers collected by the loop over os.listdir(output_dir);
\* raised when int() raises on a part that passed isdigit()
RootScan(files, base_filename) ==
    LET prefix == StrReplace(base_filename, Smd, << >>)
        counted == {f \in files :
                      /\ StartsWith(f, prefix)
                      /\ LET parts == StrSplit(StrReplace(f, Smd, << >>), Sv)
                         IN  Len(parts) = 2 /\ IsDigit(parts[2])}
        part(f) == StrSplit(StrReplace(f, Smd, << >>), Sv)[2]
    IN  [raised |-> \E f \in counted : IntOf(part(f)).raised,
         versions |-> {IntOf(part(f)).value : f \in counted}]

get_next_version_root(exists, files, base_filename) ==
    IF ~exists THEN [raised |-> FALSE, value |-> 1]
    ELSE LET scan == RootScan(files, base_filename)
         IN  IF scan.raised THEN [raised |-> TRUE, value |-> 0]
             ELSE IF scan.versions = {} THEN [raised |-> FALSE, value |-> 1]
             ELSE [raised |-> FALSE, value |-> SetMax(scan.versions) + 1]

\* ------------------------------------------------------------------------
\* get_next_version of scripts/master_auto.py
\* ------------------------------------------------------------------------
\* fnmatch of the pattern "*_v*.md"
GlobMatches(name) ==
    /\ EndsWith(name, Smd)
    /\ \E i \in 1..(Len(name) - 4) : SubSeq(name, i, i + 1) = Sv

ScriptsScan(files) ==
    LET globbed == {f \in files : GlobMatches(f)}
        last(f) == LET parts == StrSplit(Stem(f), Sv) IN parts[Len(parts)]
        counted == {f \in globbed :
                      Len(StrSplit(Stem(f), Sv)) >= 2 /\ IsDigit(last(f))}
    IN  [raised |-> \E f \in counted : IntOf(last(f)).raised,
         versions |-> {IntOf(last(f)).value : f \in counted}]

get_next_version_scripts(exists, files) ==
    IF ~exists THEN [raised |-> FALSE, value |-> 1]
    ELSE LET scan == ScriptsScan(files)
         IN  IF scan.raised THEN [raised |-> TRUE, value |-> 0]
             ELSE IF scan.versions = {} THEN [raised |-> FALSE, value |-> 1]
             ELSE [raised |-> FALSE, value |-> SetMax(scan.versions) + 1]


\* ------------------------------------------------------------------------
\* State
\* ------------------------------------------------------------------------
VARIABLES
    vdir_exists,     \* version scan: the output directory exists
    vdir,            \* version scan: the names in the output directory
    vcall,           \* version scan: the last get_next_version call and result
    orch,            \* the orchestrator program that is running
    run,             \* number of this orchestrator run on the output directory
    flags,           \* args: the parsed command line of the run
    pc,              \* position of the orchestrator in main()
    waiting,         \* the orchestrator is inside subprocess.run
    version,         \* args.version of scripts/master_auto.py
    versions,        \* prd_version, spec_version, action_version of the root
    input_path,      \* product_idea_input of scripts/master_auto.py
    generated_files, \* generated_files of scripts/master_auto.py
    paths,           \* prd_path, spec_path, action_path of the root
    temp_files,      \* temp_files of scripts/master_auto.py
    tmp_exists,      \* the temporary product-idea file is on disk
    dir,             \* the output directory: name -> run that wrote it
    invoked,         \* the child processes of this run, in order of start
    exit_code,       \* exit status of the orchestrator, -1 while it runs
    auto_versions,   \* versions that earlier runs computed for themselves
    st_script,       \* stage script: the script that is running
    st_env,          \* stage script: its command line and environment
    st_pc,           \* stage script: position in the script
    st_calls,        \* stage script: generation calls that have returned
    st_remote,       \* stage script: the remote calls made, in order
    st_fs,           \* stage script: the file-system changes made, in order
    st_exit,         \* stage script: exit status, -1 while it runs
    st_msg,          \* stage script: the message it exits with
    fn_args,         \* function calls: the inputs the calls are made on
    fn_call          \* function calls: the last call and what it returned

verVars == <<vdir_exists, vdir, vcall>>

orchVars == <<orch, run, flags, pc, waiting, version, versions, input_path,
              generated_files, paths, temp_files, tmp_exists, dir, invoked,
              exit_code, auto_versions>>

stageVars == <<st_script, st_env, st_pc, st_calls, st_remote, st_fs, st_exit,
               st_msg>>

fnVars == <<fn_args, fn_call>>

vars == <<verVars, orchVars, stageVars, fnVars>>

\* ------------------------------------------------------------------------
\* Paths, command lines and the state of no orchestrator running
\* ------------------------------------------------------------------------
\* a path: a name in the output directory, or one of the files named on the
\* command line, or the temporary product-idea file
NoPath == [loc |-> "none", name |-> << >>]
OutPath(name) == [loc |-> "outdir", name |-> name]
InputArg == [loc |-> "input", name |-> << >>]
TempFile == [loc |-> "temp", name |-> << >>]
ExistingPrd == [loc |-> "existing_prd", name |-> << >>]
ExistingSpec == [loc |-> "existing_spec", name |-> << >>]
TemplateArg == [loc |-> "template", name |-> << >>]

\* one command-line argument: a positional, or an option with its value
Pos(p) == [opt |-> "", val |-> p]
Opt(o, p) == [opt |-> o, val |-> p]

NoFlags ==
    [input |-> "file", version |-> << >>, skip |-> {},
     existing_prd |-> "none", existing_spec |-> "none",
     skip_corrections |-> FALSE]

NoVersions == [prd |-> 0, spec |-> 0, action |-> 0]

NoPaths == [prd |-> NoPath, spec |-> NoPath, action |-> NoPath]

OrchIdle ==
    /\ orch = "none"
    /\ run = 0
    /\ flags = NoFlags
    /\ pc = "done"
    /\ waiting = FALSE
    /\ version = << >>
    /\ versions = NoVersions
    /\ input_path = NoPath
    /\ generated_files = << >>
    /\ paths = NoPaths
    /\ temp_files = {}
    /\ tmp_exists = FALSE
    /\ dir = << >>
    /\ invoked = << >>
    /\ exit_code = -1
    /\ auto_versions = {}

NoEnv ==
    [key |-> TRUE, args_ok |-> TRUE, inputs_exist |-> TRUE,
     validation_exists |-> FALSE, template |-> << >>]

StageIdle ==
    /\ st_script = "none"
    /\ st_env = NoEnv
    /\ st_pc = "exit"
    /\ st_calls = 0
    /\ st_remote = << >>
    /\ st_fs = << >>
    /\ st_exit = -1
    /\ st_msg = ""

NoArgs == [kind |-> "none"]

NoFnCall == [fn |-> "none"]

FnIdle == fn_args = NoArgs /\ fn_call = NoFnCall

\* ------------------------------------------------------------------------
\* The version scan on its own: a directory that fills up, and calls of the
\* two get_next_version functions on it
\* ------------------------------------------------------------------------
\* names that may lie in an output directory
Fprd_v1 == Sprd \o Sv \o <<"1">> \o Smd
Fprd_v3 == Sprd \o Sv \o <<"3">> \o Smd
Fprd == Sprd \o Smd
Fprd_v == Sprd \o Sv \o Smd
Fprd_vx == Sprd \o Sv \o <<"x">> \o Smd
Fprd_vsup2 == Sprd \o Sv \o <<"sup2">> \o Smd
Fprd_draft_v7 == Sprd \o <<"_", "d", "r", "a", "f", "t">> \o Sv \o <<"7">> \o Smd
Fprd_v5_noext == Sprd \o Sv \o <<"5">>
Faction_plan_v2 == Saction_plan \o Sv \o <<"2">> \o Smd
Fprd_1 == Sprd \o <<"_", "1">> \o Smd

DirNames ==
    {Fprd_v1, Fprd_v3, Fprd, Fprd_v, Fprd_vx, Fprd_vsup2, Fprd_draft_v7,
     Fprd_v5_noext, Faction_plan_v2, Fprd_1}

NoCall == [fn |-> "none", base |-> << >>, raised |-> FALSE, value |-> 0]

VerIdle ==
    /\ vdir_exists = FALSE
    /\ vdir = {}
    /\ vcall = NoCall

InitVer == VerIdle /\ OrchIdle /\ StageIdle /\ FnIdle

\* os.makedirs(output_dir, exist_ok=True)
V_Makedirs ==
    /\ ~vdir_exists
    /\ vdir_exists' = TRUE
    /\ UNCHANGED <<vdir, vcall, orchVars, stageVars, fnVars>>

\* some file appears in the output directory
V_CreateFile(f) ==
    /\ vdir_exists
    /\ f \notin vdir
    /\ Cardinality(vdir) < MaxFiles
    /\ vdir' = vdir \cup {f}
    /\ vcall' = NoCall
    /\ UNCHANGED <<vdir_exists, orchVars, stageVars, fnVars>>

\* get_next_version(output_dir, base_filename) of the root master_auto.py
V_CallRoot(base) ==
    /\ LET r == get_next_version_root(vdir_exists, vdir, base)
       IN  vcall' = [fn |-> "root", base |-> base,
                     raised |-> r.raised, value |-> r.value]
    /\ UNCHANGED <<vdir_exists, vdir, orchVars, stageVars, fnVars>>

\* get_next_version(output_dir) of scripts/master_auto.py
V_CallScripts ==
    /\ LET r == get_next_version_scripts(vdir_exists, vdir)
       IN  vcall' = [fn |-> "scripts", base |-> << >>,
                     raised |-> r.raised, value |-> r.value]
    /\ UNCHANGED <<vdir_exists, vdir, orchVars, stageVars, fnVars>>

NextVer ==
    \/ V_Makedirs
    \/ \E f \in DirNames : V_CreateFile(f)
    \/ \E base \in BaseFilenames : V_CallRoot(base)
    \/ V_CallScripts

SpecVer == InitVer /\ [][NextVer]_vars

\* ------------------------------------------------------------------------
\* Claims about the version scan
\* ------------------------------------------------------------------------
AllDecimal(s) == Len(s) > 0 /\ \A i \in 1..Len(s) : s[i] \in DecimalChars

\* the N of the files named exactly <base>_v<N>.md
NamedVersions(files, base_filename) ==
    LET stemv == StrReplace(base_filename, Smd, << >>) \o Sv
    IN  {DecimalValue(SubSeq(f, Len(stemv) + 1, Len(f) - Len(Smd))) :
           f \in {g \in files :
                    /\ StartsWith(g, stemv)
                    /\ EndsWith(g, Smd)
                    /\ Len(g) > Len(stemv) + Len(Smd)
                    /\ AllDecimal(SubSeq(g, Len(stemv) + 1, Len(g) - Len(Smd)))}}

\* C4: get_next_version(output_dir, base) of the root master_auto.py returns 1
\* when the directory does not exist or holds no file <base>_v<N>.md, and
\* otherwise max(N)+1 over the files <base>_v<N>.md; the path
\* <base>_v<result>.md then names no existing file.
C4_RootNextVersion ==
    vcall.fn = "root" =>
        LET ns == NamedVersions(vdir, vcall.base)
            expected == IF ~vdir_exists \/ ns = {} THEN 1 ELSE SetMax(ns) + 1
        IN  /\ ~vcall.raised
            /\ vcall.value = expected
            /\ StrReplace(vcall.base, Smd, << >>) \o Sv
                 \o StrOfInt(vcall.value) \o Smd \notin vdir

\* the text after the last "_v" of a name, a trailing ".md" left out
VSuffix(f) ==
    LET parts == StrSplit(IF EndsWith(f, Smd) THEN SubSeq(f, 1, Len(f) - Len(Smd)) ELSE f, Sv)
    IN  IF Len(parts) < 2 THEN << >> ELSE parts[Len(parts)]

\* the _v suffix is missing, empty or not a decimal number
MalformedSuffix(f) == ~AllDecimal(VSuffix(f))

ResultOf(fn, base, files) ==
    IF fn = "root" THEN get_next_version_root(vdir_exists, files, base)
    ELSE get_next_version_scripts(vdir_exists, files)

\* C5: for both get_next_version implementations a file name whose _v suffix
\* is missing, empty, non-numeric or otherwise malformed never raises an error
\* and never changes the result: the version equals the one computed with
\* that file removed.
C5_MalformedIgnored ==
    vcall.fn # "none" =>
        /\ ~vcall.raised
        /\ \A f \in vdir :
              MalformedSuffix(f) =>
                  ResultOf(vcall.fn, vcall.base, vdir \ {f}).value = vcall.value


\* ------------------------------------------------------------------------
\* The stage scripts as child processes
\* ------------------------------------------------------------------------
MaxRuns == 2

\* the required positionals and the options each script's parser declares
Signature(script) ==
    CASE script = "scripts/prd_auto.py" ->
           [positionals |-> 1,
            options |-> {"--template", "--output", "--validation-output"}]
      [] script = "scripts/spec_auto.py" ->
           [positionals |-> 1,
            options |-> {"--template", "--output", "--validation-file",
                         "--product-idea", "--generate-action-plan"}]
      [] script = "scripts/action_plan_auto.py" ->
           [positionals |-> 1, options |-> {"--prd-file", "--output"}]
      [] script = "scripts/milestones_auto.py" ->
           [positionals |-> 1,
            options |-> {"--action-plan-file", "--milestone", "--description",
                         "-o", "--output", "--split-files"}]
      [] script = "scripts/gtm_auto.py" ->
           [positionals |-> 2, options |-> {"-o", "--output"}]
      [] script = "scripts/validation_extractor.py" ->
           [positionals |-> 1, options |-> {"--output"}]
      [] script = "scripts/architecture_corrector.py" ->
           [positionals |-> 3, options |-> {}]
      [] script = "prd_auto.py" ->
           [positionals |-> 1, options |-> {"--template", "--output"}]
      [] script = "spec_auto.py" ->
           [positionals |-> 1,
            options |-> {"--template", "--output", "--product-idea"}]
      [] script = "action_plan_auto.py" ->
           [positionals |-> 1, options |-> {"--prd-file", "--output"}]

IsPositional(a) == a.opt = ""

Positionals(argv) == SelectSeq(argv, IsPositional)

\* parser.parse_args() accepts the command line
ArgsValid(script, argv) ==
    /\ Len(Positionals(argv)) = Signature(script).positionals
    /\ \A i \in 1..Len(argv) :
          argv[i].opt # "" => argv[i].opt \in Signature(script).options

\* the value of --output on the command line
OutputOf(argv) ==
    IF \E i \in 1..Len(argv) : argv[i].opt = "--output"
    THEN argv[CHOOSE i \in 1..Len(argv) : argv[i].opt = "--output"].val
    ELSE NoPath

PathExists(p) ==
    CASE p.loc = "outdir" -> p.name \in DOMAIN dir
      [] p.loc = "input" -> flags.input = "file"
      [] p.loc = "temp" -> tmp_exists
      [] p.loc = "existing_prd" -> flags.existing_prd = "file"
      [] p.loc = "existing_spec" -> flags.existing_spec = "file"
      [] p.loc = "template" -> TRUE
      [] OTHER -> FALSE

Svalidation_tracking ==
    <<"v", "a", "l", "i", "d", "a", "t", "i", "o", "n", "_",
      "t", "r", "a", "c", "k", "i", "n", "g">> \o Smd

Scorrected == <<"_", "c", "o", "r", "r", "e", "c", "t", "e", "d">> \o Smd

\* the ways a started script can end: its exit status and the names it has
\* written in the output directory by then
Outcomes(script, argv) ==
    LET pos == Positionals(argv)
        inputs == \A i \in 1..Len(pos) : PathExists(pos[i].val)
        out == OutputOf(argv).name
    IN  IF script = "scripts/prd_auto.py"
        THEN {[code |-> 1, writes |-> {}],
              [code |-> 1, writes |-> {Svalidation_tracking}]}
             \cup (IF inputs
                   THEN {[code |-> 0, writes |-> {out, Svalidation_tracking}]}
                   ELSE {})
        ELSE IF script = "scripts/architecture_corrector.py"
        THEN {[code |-> 1, writes |-> {}]}
             \cup (IF inputs
                   THEN {[code |-> 0, writes |-> {}],
                         [code |-> 0,
                          writes |-> {StrReplace(pos[1].val.name, Smd, Scorrected),
                                      StrReplace(pos[2].val.name, Smd, Scorrected)}]}
                   ELSE {})
        ELSE {[code |-> 1, writes |-> {}]}
             \cup (IF inputs THEN {[code |-> 0, writes |-> {out}]} ELSE {})

Running(p) == p.status = "running"

\* a child process runs to its end: argparse rejects the command line with
\* status 2, or the script ends in one of its outcomes
ChildRun(i) ==
    /\ i \in 1..Len(invoked)
    /\ Running(invoked[i])
    /\ LET p == invoked[i]
       IN  IF ~ArgsValid(p.script, p.argv)
           THEN /\ invoked' = [invoked EXCEPT ![i].status = "exited", ![i].code = 2]
                /\ dir' = dir
           ELSE \E o \in Outcomes(p.script, p.argv) :
                  /\ invoked' = [invoked EXCEPT ![i].status = "exited",
                                                ![i].code = o.code]
                  /\ dir' = [n \in DOMAIN dir \cup o.writes |->
                               IF n \in o.writes THEN run ELSE dir[n]]
    /\ UNCHANGED <<verVars, stageVars, fnVars, orch, run, flags, pc, waiting, version, versions,
                   input_path, generated_files, paths, temp_files, tmp_exists,
                   exit_code, auto_versions>>

\* a subprocess call that does not wait for its child
subprocess_run_nowait(p) == TRUE

\* subprocess.run returns once the child it started has exited
subprocess_run_returned(p) == p.status = "exited"

\* check=True raises CalledProcessError for a non-zero exit status
CalledProcessError(p) == p.status = "exited" /\ p.code # 0

\* run_script returns True unless subprocess.run raised
run_script_success(p) == ~CalledProcessError(p)

\* run_script of scripts/master_auto.py found no script file and started
\* nothing
NotFound(script, argv) ==
    [script |-> script, argv |-> argv, status |-> "notfound", code |-> -1]

Child(script, argv) ==
    [script |-> script, argv |-> argv, status |-> "running", code |-> -1]

LastChild == invoked[Len(invoked)]


\* ------------------------------------------------------------------------
\* scripts/master_auto.py
\* ------------------------------------------------------------------------
SM_Stages == <<"prd", "spec", "action_plan", "milestones", "gtm">>

Stech_spec == <<"t", "e", "c", "h", "_", "s", "p", "e", "c">>
Smilestone_specs ==
    <<"m", "i", "l", "e", "s", "t", "o", "n", "e", "_", "s", "p", "e", "c", "s">>
Sgtm_plan == <<"g", "t", "m", "_", "p", "l", "a", "n">>

\* output_dir / f"<prefix>_{args.version}.md"
SM_OutputName(stage, ver) ==
    (CASE stage = "prd" -> Sprd
       [] stage = "spec" -> Stech_spec
       [] stage = "action_plan" -> Saction_plan
       [] stage = "milestones" -> Smilestone_specs
       [] stage = "gtm" -> Sgtm_plan) \o <<"_">> \o ver \o Smd

SM_Script(stage) ==
    CASE stage = "prd" -> "scripts/prd_auto.py"
      [] stage = "spec" -> "scripts/spec_auto.py"
      [] stage = "action_plan" -> "scripts/action_plan_auto.py"
      [] stage = "milestones" -> "scripts/milestones_auto.py"
      [] stage = "gtm" -> "scripts/gtm_auto.py"

\* a chain that jumps from the action plan to the GTM block
SM_After_skips_milestones(stage) ==
    CASE stage = "prd" -> "spec"
      [] stage = "spec" -> "action_plan"
      [] stage = "action_plan" -> "gtm"
      [] stage = "milestones" -> "gtm"
      [] stage = "gtm" -> "summary"

\* the position after a stage's block
SM_After(stage) ==
    CASE stage = "prd" -> "spec"
      [] stage = "spec" -> "action_plan"
      [] stage = "action_plan" -> "milestones"
      [] stage = "milestones" -> "gtm"
      [] stage = "gtm" -> "summary"

\* the command line a stage's block builds from generated_files, or the
\* "Need Technical Specification" exit
SM_Invocation(stage, gf, inp, ver) ==
    LET out == Opt("--output", OutPath(SM_OutputName(stage, ver)))
        has(k) == k \in DOMAIN gf
        run_it(argv) == [need_exit |-> FALSE, argv |-> argv]
        need == [need_exit |-> TRUE, argv |-> << >>]
    IN  CASE stage = "prd" -> run_it(<<Pos(inp), out>>)
          [] stage = "spec" ->
               IF has("prd") THEN run_it(<<Pos(gf["prd"]), out>>)
               ELSE run_it(<<Pos(inp), out>>)
          [] stage = "action_plan" ->
               IF has("spec") /\ has("prd")
               THEN run_it(<<Pos(gf["spec"]), Opt("--prd-file", gf["prd"]), out>>)
               ELSE IF has("spec") THEN run_it(<<Pos(gf["spec"]), out>>)
               ELSE need
          [] stage = "milestones" ->
               IF has("spec") /\ has("action_plan")
               THEN run_it(<<Pos(gf["spec"]),
                             Opt("--action-plan-file", gf["action_plan"]), out>>)
               ELSE IF has("spec") THEN run_it(<<Pos(gf["spec"]), out>>)
               ELSE need
          [] stage = "gtm" ->
               IF has("prd") THEN run_it(<<Pos(gf["prd"]), out>>)
               ELSE run_it(<<Pos(inp), out>>)

\* a main() that goes on after a failed stage
SM_OnResult_goes_on(stage, success) ==
    [pc |-> SM_After(stage), exit_code |-> -1]

\* what main() does with the result of run_script: go on, or sys.exit(1)
SM_OnResult(stage, success) ==
    IF success THEN [pc |-> SM_After(stage), exit_code |-> -1]
    ELSE [pc |-> "done", exit_code |-> 1]

\* the failure branch unlinks the temporary files in the PRD block only
SM_CleansUp(stage) == stage = "prd"

\* parse_args, mkdir of the output directory, choice of the version
SM_Start ==
    /\ orch = "scripts_master"
    /\ pc = "start"
    /\ IF flags.version # << >>
       THEN /\ version' = flags.version
            /\ pc' = "input"
            /\ exit_code' = exit_code
       ELSE LET r == get_next_version_scripts(TRUE, DOMAIN dir)
            IN  IF r.raised
                THEN /\ version' = version
                     /\ pc' = "done"
                     /\ exit_code' = 1
                ELSE /\ version' = StrOfInt(r.value)
                     /\ pc' = "input"
                     /\ exit_code' = exit_code
    /\ UNCHANGED <<verVars, stageVars, fnVars, orch, run, flags, waiting, versions, input_path,
                   generated_files, paths, temp_files, tmp_exists, dir,
                   invoked, auto_versions>>

\* product_idea is a file, or raw text that goes to a temporary file
SM_Input ==
    /\ orch = "scripts_master"
    /\ pc = "input"
    /\ IF flags.input # "file"
       THEN /\ tmp_exists' = TRUE
            /\ input_path' = TempFile
            /\ temp_files' = {TempFile}
       ELSE /\ input_path' = InputArg
            /\ UNCHANGED <<tmp_exists, temp_files>>
    /\ pc' = "prd"
    /\ UNCHANGED <<verVars, stageVars, fnVars, orch, run, flags, waiting, version, versions,
                   generated_files, paths, dir, invoked, exit_code,
                   auto_versions>>

\* the pipeline stops after a stage that did not succeed
SM_Stop(stage) ==
    /\ pc' = SM_OnResult(stage, FALSE).pc
    /\ exit_code' = SM_OnResult(stage, FALSE).exit_code
    /\ tmp_exists' = IF SM_CleansUp(stage) /\ temp_files # {} THEN FALSE
                     ELSE tmp_exists

\* a stage's block up to the start of its child process
SM_Step(stage) ==
    /\ orch = "scripts_master"
    /\ pc = stage
    /\ ~waiting
    /\ IF stage \in flags.skip
       THEN /\ pc' = SM_After(stage)
            /\ UNCHANGED <<invoked, waiting, exit_code, tmp_exists>>
       ELSE LET inv == SM_Invocation(stage, generated_files, input_path, version)
            IN  IF inv.need_exit
                THEN /\ pc' = "done"
                     /\ exit_code' = 1
                     /\ UNCHANGED <<invoked, waiting, tmp_exists>>
                ELSE \/ /\ invoked' = Append(invoked, Child(SM_Script(stage), inv.argv))
                        /\ waiting' = TRUE
                        /\ UNCHANGED <<pc, exit_code, tmp_exists>>
                     \/ \* run_script: script not found
                        /\ invoked' = Append(invoked, NotFound(SM_Script(stage), inv.argv))
                        /\ SM_Stop(stage)
                        /\ UNCHANGED waiting
    /\ UNCHANGED <<verVars, stageVars, fnVars, orch, run, flags, version, versions, input_path,
                   generated_files, paths, temp_files, dir, auto_versions>>

\* run_script returns and the block records the output or stops
SM_Return(stage) ==
    /\ orch = "scripts_master"
    /\ pc = stage
    /\ waiting
    /\ subprocess_run_returned(LastChild)
    /\ waiting' = FALSE
    /\ IF run_script_success(LastChild)
       THEN /\ generated_files' =
                 [k \in DOMAIN generated_files \cup {stage} |->
                    IF k = stage THEN OutputOf(LastChild.argv)
                    ELSE generated_files[k]]
            /\ pc' = SM_OnResult(stage, TRUE).pc
            /\ exit_code' = SM_OnResult(stage, TRUE).exit_code
            /\ tmp_exists' = tmp_exists
       ELSE /\ SM_Stop(stage)
            /\ generated_files' = generated_files
    /\ UNCHANGED <<verVars, stageVars, fnVars, orch, run, flags, version, versions, input_path,
                   paths, temp_files, dir, invoked, auto_versions>>

\* the summary, the clean-up of the temporary files, the normal end
SM_Summary ==
    /\ orch = "scripts_master"
    /\ pc = "summary"
    /\ tmp_exists' = IF temp_files # {} THEN FALSE ELSE tmp_exists
    /\ exit_code' = 0
    /\ pc' = "done"
    /\ UNCHANGED <<verVars, stageVars, fnVars, orch, run, flags, waiting, version, versions,
                   input_path, generated_files, paths, temp_files, dir,
                   invoked, auto_versions>>

SM_Flags ==
    [input : {"file", "missing"},
     version : {<< >>, <<"v", "1">>},
     skip : SUBSET {"prd", "spec", "action_plan", "milestones", "gtm"},
     existing_prd : {"none"}, existing_spec : {"none"},
     skip_corrections : {FALSE}]

\* ------------------------------------------------------------------------
\* master_auto.py of the repository root
\* ------------------------------------------------------------------------
RM_Stages == <<"prd", "spec", "action_plan">>

Sgeneration_summary ==
    <<"g", "e", "n", "e", "r", "a", "t", "i", "o", "n", "_",
      "s", "u", "m", "m", "a", "r", "y">>
Sjson == <<".", "j", "s", "o", "n">>

\* f"<base>_v{version}.md"
RM_Filename(base, n) == base \o Sv \o StrOfInt(n) \o Smd

\* generation_summary_v{prd_version}.json
RM_SummaryName(n) == Sgeneration_summary \o Sv \o StrOfInt(n) \o Sjson

RM_Script(stage) ==
    CASE stage = "prd" -> "prd_auto.py"
      [] stage = "spec" -> "spec_auto.py"
      [] stage = "action_plan" -> "action_plan_auto.py"

RM_After(stage) ==
    CASE stage = "prd" -> "spec"
      [] stage = "spec" -> "action_plan"
      [] stage = "action_plan" -> "summary"

\* prd_args, spec_args, action_args
\* command lines that always name the versioned paths of this run
RM_Args_generated(stage, pth) ==
    LET prd == OutPath(RM_Filename(Sprd, versions.prd))
        spec == OutPath(RM_Filename(Stechnical_specification, versions.spec))
    IN  CASE stage = "prd" ->
               <<Pos(InputArg), Opt("--template", TemplateArg),
                 Opt("--output", prd)>>
          [] stage = "spec" ->
               <<Pos(prd), Opt("--template", TemplateArg),
                 Opt("--output", spec), Opt("--product-idea", InputArg)>>
          [] stage = "action_plan" ->
               <<Pos(spec), Opt("--prd-file", prd), Opt("--output", pth.action)>>

RM_Args(stage, pth) ==
    CASE stage = "prd" ->
           <<Pos(InputArg), Opt("--template", TemplateArg),
             Opt("--output", pth.prd)>>
      [] stage = "spec" ->
           <<Pos(pth.prd), Opt("--template", TemplateArg),
             Opt("--output", pth.spec), Opt("--product-idea", InputArg)>>
      [] stage = "action_plan" ->
           <<Pos(pth.spec), Opt("--prd-file", pth.prd),
             Opt("--output", pth.action)>>

\* a main() that goes on after any failed stage
RM_OnResult_goes_on(stage, success) ==
    [pc |-> RM_After(stage), exit_code |-> -1]

\* what main() does with the result of run_script: a failed PRD or spec
\* stage ends the run with sys.exit(1), a failed action plan does not
RM_OnResult(stage, success) ==
    IF success \/ stage = "action_plan"
    THEN [pc |-> RM_After(stage), exit_code |-> -1]
    ELSE [pc |-> "done", exit_code |-> 1]

\* a main() that does not look at the input file
RM_InputValid_unchecked(f) == TRUE

\* the input file must exist before anything else happens
RM_InputValid(f) == f.input = "file"

\* parse_args, validation of the input file, makedirs, the three versions
\* and the three output paths
RM_Start ==
    /\ orch = "root_master"
    /\ pc = "start"
    /\ IF ~RM_InputValid(flags)
       THEN /\ pc' = "done"
            /\ exit_code' = 1
            /\ UNCHANGED <<versions, paths>>
       ELSE LET p == get_next_version_root(TRUE, DOMAIN dir, Sprd \o Smd)
                t == get_next_version_root(TRUE, DOMAIN dir,
                                           Stechnical_specification \o Smd)
                a == get_next_version_root(TRUE, DOMAIN dir, Saction_plan \o Smd)
            IN  IF p.raised \/ t.raised \/ a.raised
                THEN /\ pc' = "done"
                     /\ exit_code' = 1
                     /\ UNCHANGED <<versions, paths>>
                ELSE /\ versions' = [prd |-> p.value, spec |-> t.value,
                                     action |-> a.value]
                     /\ paths' =
                          [prd |-> OutPath(RM_Filename(Sprd, p.value)),
                           spec |-> OutPath(RM_Filename(Stechnical_specification,
                                                        t.value)),
                           action |-> OutPath(RM_Filename(Saction_plan, a.value))]
                     /\ pc' = "prd"
                     /\ exit_code' = exit_code
    /\ UNCHANGED <<verVars, stageVars, fnVars, orch, run, flags, waiting, version, input_path,
                   generated_files, temp_files, tmp_exists, dir, invoked,
                   auto_versions>>

\* a stage's block up to the start of its child process; a skipped PRD or
\* spec stage needs its --existing file
RM_Step(stage) ==
    /\ orch = "root_master"
    /\ pc = stage
    /\ ~waiting
    /\ IF stage \notin flags.skip
       THEN /\ invoked' = Append(invoked, Child(RM_Script(stage), RM_Args(stage, paths)))
            /\ waiting' = TRUE
            /\ UNCHANGED <<pc, exit_code, paths>>
       ELSE /\ UNCHANGED <<invoked, waiting>>
            /\ CASE stage = "prd" ->
                      IF flags.existing_prd = "file"
                      THEN /\ paths' = [paths EXCEPT !.prd = ExistingPrd]
                           /\ pc' = RM_After(stage)
                           /\ exit_code' = exit_code
                      ELSE /\ pc' = "done"
                           /\ exit_code' = 1
                           /\ paths' = paths
                 [] stage = "spec" ->
                      IF flags.existing_spec = "file"
                      THEN /\ paths' = [paths EXCEPT !.spec = ExistingSpec]
                           /\ pc' = RM_After(stage)
                           /\ exit_code' = exit_code
                      ELSE /\ pc' = "done"
                           /\ exit_code' = 1
                           /\ paths' = paths
                 [] stage = "action_plan" ->
                      /\ pc' = RM_After(stage)
                      /\ UNCHANGED <<exit_code, paths>>
    /\ UNCHANGED <<verVars, stageVars, fnVars, orch, run, flags, version, versions, input_path,
                   generated_files, temp_files, tmp_exists, dir, auto_versions>>

\* run_script returns
RM_Return(stage) ==
    /\ orch = "root_master"
    /\ pc = stage
    /\ waiting
    /\ subprocess_run_returned(LastChild)
    /\ waiting' = FALSE
    /\ pc' = RM_OnResult(stage, run_script_success(LastChild)).pc
    /\ exit_code' = RM_OnResult(stage, run_script_success(LastChild)).exit_code
    /\ UNCHANGED <<verVars, stageVars, fnVars, orch, run, flags, version, versions, input_path,
                   generated_files, paths, temp_files, tmp_exists, dir,
                   invoked, auto_versions>>

\* the summary file is written and the run ends normally
RM_Summary ==
    /\ orch = "root_master"
    /\ pc = "summary"
    /\ dir' = [n \in DOMAIN dir \cup {RM_SummaryName(versions.prd)} |->
                 IF n = RM_SummaryName(versions.prd) THEN run ELSE dir[n]]
    /\ exit_code' = 0
    /\ pc' = "done"
    /\ UNCHANGED <<verVars, stageVars, fnVars, orch, run, flags, waiting, version, versions,
                   input_path, generated_files, paths, temp_files, tmp_exists,
                   invoked, auto_versions>>

RM_Flags ==
    [input : {"file", "missing"},
     version : {<< >>},
     skip : SUBSET {"prd", "spec", "action_plan"},
     existing_prd : {"none", "missing", "file"},
     existing_spec : {"none", "missing", "file"},
     skip_corrections : {FALSE}]

\* ------------------------------------------------------------------------
\* scripts/master_with_corrections.py
\* ------------------------------------------------------------------------
MC_Stages == <<"prd", "spec", "validation", "correction">>

Sprd_final == Sprd \o <<"_", "f", "i", "n", "a", "l">> \o Smd
Stech_spec_final == Stech_spec \o <<"_", "f", "i", "n", "a", "l">> \o Smd

\* the defaults of --prd-output, --spec-output and --validation-output
MC_PrdOutput == OutPath(Sprd_final)
MC_SpecOutput == OutPath(Stech_spec_final)
MC_ValidationOutput == OutPath(Svalidation_tracking)

MC_Script(stage) ==
    CASE stage = "prd" -> "scripts/prd_auto.py"
      [] stage = "spec" -> "scripts/spec_auto.py"
      [] stage = "validation" -> "scripts/validation_extractor.py"
      [] stage = "correction" -> "scripts/architecture_corrector.py"

MC_After(stage) ==
    CASE stage = "prd" -> "spec"
      [] stage = "spec" -> "validation"
      [] stage = "validation" -> "correction"
      [] stage = "correction" -> "done"

\* prd_cmd, spec_cmd, validation_cmd, correction_cmd
MC_Args(stage) ==
    CASE stage = "prd" -> <<Pos(InputArg), Opt("--output", MC_PrdOutput)>>
      [] stage = "spec" -> <<Pos(MC_PrdOutput), Opt("--output", MC_SpecOutput)>>
      [] stage = "validation" ->
           <<Pos(MC_SpecOutput), Opt("--output", MC_ValidationOutput)>>
      [] stage = "correction" ->
           <<Pos(MC_PrdOutput), Pos(MC_SpecOutput), Pos(MC_ValidationOutput)>>

\* an orchestrator that also stops on a failed correction step
MC_OnResult_strict(stage, success) ==
    IF success THEN [pc |-> MC_After(stage), exit_code |-> IF stage = "correction" THEN 0 ELSE -1]
    ELSE [pc |-> "done", exit_code |-> 1]

\* run_command exits with status 1 when its child fails; the result of the
\* correction step is only printed
MC_OnResult(stage, success) ==
    IF stage = "correction" THEN [pc |-> "done", exit_code |-> 0]
    ELSE IF success THEN [pc |-> MC_After(stage), exit_code |-> -1]
    ELSE [pc |-> "done", exit_code |-> 1]

\* parse_args and the banner
MC_Start ==
    /\ orch = "with_corrections"
    /\ pc = "start"
    /\ pc' = "prd"
    /\ UNCHANGED <<verVars, stageVars, fnVars, orch, run, flags, waiting, version, versions,
                   input_path, generated_files, paths, temp_files, tmp_exists,
                   dir, invoked, exit_code, auto_versions>>

\* a step up to the start of its child process; --skip-corrections ends the
\* run before the correction step
MC_Step(stage) ==
    /\ orch = "with_corrections"
    /\ pc = stage
    /\ ~waiting
    /\ IF stage = "correction" /\ flags.skip_corrections
       THEN /\ pc' = "done"
            /\ exit_code' = 0
            /\ UNCHANGED <<invoked, waiting>>
       ELSE /\ invoked' = Append(invoked, Child(MC_Script(stage), MC_Args(stage)))
            /\ waiting' = TRUE
            /\ UNCHANGED <<pc, exit_code>>
    /\ UNCHANGED <<verVars, stageVars, fnVars, orch, run, flags, version, versions, input_path,
                   generated_files, paths, temp_files, tmp_exists, dir,
                   auto_versions>>

\* subprocess.run returns
MC_Return(stage) ==
    /\ orch = "with_corrections"
    /\ pc = stage
    /\ waiting
    /\ subprocess_run_returned(LastChild)
    /\ waiting' = FALSE
    /\ pc' = MC_OnResult(stage, run_script_success(LastChild)).pc
    /\ exit_code' = MC_OnResult(stage, run_script_success(LastChild)).exit_code
    /\ UNCHANGED <<verVars, stageVars, fnVars, orch, run, flags, version, versions, input_path,
                   generated_files, paths, temp_files, tmp_exists, dir,
                   invoked, auto_versions>>

MC_Flags ==
    [input : {"file", "missing"},
     version : {<< >>},
     skip : {{}},
     existing_prd : {"none"}, existing_spec : {"none"},
     skip_corrections : BOOLEAN]

\* ------------------------------------------------------------------------
\* The orchestrators as processes started on an output directory
\* ------------------------------------------------------------------------
Orchestrators == {"scripts_master", "root_master", "with_corrections"}

FlagsOf(o) ==
    CASE o = "scripts_master" -> SM_Flags
      [] o = "root_master" -> RM_Flags
      [] o = "with_corrections" -> MC_Flags

\* what the output directory holds before the first run
InitialListings == {{}, {Fprd_v3}, {Fprd_vsup2}}

ProcessStart(o, f) ==
    /\ orch' = o
    /\ flags' = f
    /\ pc' = "start"
    /\ waiting' = FALSE
    /\ version' = << >>
    /\ versions' = NoVersions
    /\ input_path' = NoPath
    /\ generated_files' = << >>
    /\ paths' = NoPaths
    /\ temp_files' = {}
    /\ tmp_exists' = FALSE
    /\ invoked' = << >>
    /\ exit_code' = -1

Init ==
    /\ VerIdle
    /\ StageIdle
    /\ FnIdle
    /\ orch \in Orchestrators
    /\ flags \in FlagsOf(orch)
    /\ run = 1
    /\ pc = "start"
    /\ waiting = FALSE
    /\ version = << >>
    /\ versions = NoVersions
    /\ input_path = NoPath
    /\ generated_files = << >>
    /\ paths = NoPaths
    /\ temp_files = {}
    /\ tmp_exists = FALSE
    /\ \E names \in InitialListings : dir = [n \in names |-> 0]
    /\ invoked = << >>
    /\ exit_code = -1
    /\ auto_versions = {}

\* the orchestrator is started again on the same output directory
StartRun ==
    /\ pc = "done"
    /\ run < MaxRuns
    /\ run' = run + 1
    /\ \E f \in FlagsOf(orch) : ProcessStart(orch, f)
    /\ auto_versions' =
         IF orch = "scripts_master" /\ flags.version = << >> /\ version # << >>
         THEN auto_versions \cup {DecimalValue(version)}
         ELSE auto_versions
    /\ UNCHANGED <<verVars, stageVars, fnVars, dir>>

Next ==
    \/ SM_Start
    \/ SM_Input
    \/ \E i \in 1..Len(SM_Stages) : SM_Step(SM_Stages[i])
    \/ \E i \in 1..Len(SM_Stages) : SM_Return(SM_Stages[i])
    \/ SM_Summary
    \/ RM_Start
    \/ \E i \in 1..Len(RM_Stages) : RM_Step(RM_Stages[i])
    \/ \E i \in 1..Len(RM_Stages) : RM_Return(RM_Stages[i])
    \/ RM_Summary
    \/ MC_Start
    \/ \E i \in 1..Len(MC_Stages) : MC_Step(MC_Stages[i])
    \/ \E i \in 1..Len(MC_Stages) : MC_Return(MC_Stages[i])
    \/ \E i \in 1..Len(invoked) : ChildRun(i)
    \/ StartRun

Spec == Init /\ [][Next]_vars


\* ------------------------------------------------------------------------
\* Claims about the orchestrators
\* ------------------------------------------------------------------------
Failed(p) == p.status = "notfound" \/ (p.status = "exited" /\ p.code # 0)

Succeeded(p) == p.status = "exited" /\ p.code = 0

\* C1: in scripts/master_auto.py, once a stage's subprocess has exited
\* non-zero or could not be started, no later stage is invoked and the
\* orchestrator ends with a non-zero exit status.
C1_ShortCircuit ==
    orch = "scripts_master" =>
        \A i \in 1..Len(invoked) :
            Failed(invoked[i]) =>
                /\ i = Len(invoked)
                /\ ~waiting => (pc = "done" /\ exit_code # 0)

\* a run of scripts/master_auto.py that ended after its spec stage failed
\* although the action plan was not skipped
C1_Witness ==
    /\ orch = "scripts_master"
    /\ pc = "done"
    /\ exit_code = 1
    /\ "action_plan" \notin flags.skip
    /\ Len(invoked) = 2
    /\ invoked[2].script = "scripts/spec_auto.py"
    /\ invoked[2].code = 1

\* the summary file of this run of the root master_auto.py is written
RM_SummaryWritten ==
    /\ RM_SummaryName(versions.prd) \in DOMAIN dir
    /\ dir[RM_SummaryName(versions.prd)] = run

\* C2 as stated: in the root master_auto.py, whenever a stage that was not
\* skipped fails, the orchestrator stops the chain and exits with a non-zero
\* status; it never reports completion (summary written, status 0) after a
\* stage has failed.
C2_AnyFailureStops ==
    (orch = "root_master" /\ (\E i \in 1..Len(invoked) : Failed(invoked[i]))) =>
        /\ pc # "summary"
        /\ ~RM_SummaryWritten
        /\ pc = "done" => exit_code # 0

\* C2 as amended: in the root master_auto.py, whenever the PRD or the spec
\* stage fails, no later stage is invoked, the summary is not written and the
\* orchestrator exits with status 1; a failed action-plan stage does not stop
\* the run: the summary is written and the exit status is 0.
C2_PrdSpecFailureStops ==
    orch = "root_master" =>
        /\ \A i \in 1..Len(invoked) :
              (Failed(invoked[i])
                 /\ invoked[i].script \in {"prd_auto.py", "spec_auto.py"}) =>
                  /\ i = Len(invoked)
                  /\ pc # "summary"
                  /\ ~RM_SummaryWritten
                  /\ ~waiting => (pc = "done" /\ exit_code = 1)
        /\ (pc = "done"
              /\ (\E i \in 1..Len(invoked) :
                    Failed(invoked[i]) /\ invoked[i].script = "action_plan_auto.py")) =>
              (exit_code = 0 /\ RM_SummaryWritten)

\* a run of the root master_auto.py that ended after its spec stage failed
\* although the action plan was not skipped
C2_Witness ==
    /\ orch = "root_master"
    /\ pc = "done"
    /\ exit_code = 1
    /\ "action_plan" \notin flags.skip
    /\ Len(invoked) = 2
    /\ invoked[2].script = "spec_auto.py"
    /\ Failed(invoked[2])

\* C3: in scripts/master_auto.py run without --version, the version chosen
\* is strictly greater than the version of every earlier run on the same
\* output directory, so that no output path of the run names a file that an
\* earlier run wrote.
C3_PriorOutputsKept ==
    (orch = "scripts_master" /\ flags.version = << >> /\ version # << >>) =>
        /\ \A v \in auto_versions : DecimalValue(version) > v
        /\ \A i \in 1..Len(SM_Stages) :
              LET name == SM_OutputName(SM_Stages[i], version)
              IN  name \in DOMAIN dir => dir[name] = run

\* C6: in scripts/master_auto.py every stage invocation supplies all required
\* inputs of the invoked script's command line, and a run in which no stage
\* is skipped and every generation stage before GTM succeeds invokes GTM and
\* ends with exit status 0.
C6_StagesGetInputs ==
    orch = "scripts_master" =>
        /\ \A i \in 1..Len(invoked) :
              ArgsValid(invoked[i].script, invoked[i].argv)
        /\ (pc = "done" /\ flags.skip = {} /\ Len(invoked) >= 4
              /\ (\A k \in 1..4 : Succeeded(invoked[k]))
              /\ (\A k \in 1..Len(invoked) : invoked[k].code # 1)) =>
              (Len(invoked) = 5 /\ exit_code = 0)

\* the scripts each orchestrator starts, in the order of its chain
ChainOf(o) ==
    CASE o = "scripts_master" ->
           <<"scripts/prd_auto.py", "scripts/spec_auto.py",
             "scripts/action_plan_auto.py", "scripts/milestones_auto.py",
             "scripts/gtm_auto.py">>
      [] o = "root_master" ->
           <<"prd_auto.py", "spec_auto.py", "action_plan_auto.py">>
      [] o = "with_corrections" ->
           <<"scripts/prd_auto.py", "scripts/spec_auto.py",
             "scripts/validation_extractor.py",
             "scripts/architecture_corrector.py">>

ChainIndex(o, script) ==
    CHOOSE k \in 1..Len(ChainOf(o)) : ChainOf(o)[k] = script

\* C7: in every orchestrator at most one child process is running at any
\* time, a stage is started only after the previous stage's process has
\* exited, each stage is started at most once per run, and the stages that
\* are started occur in the fixed order of the chain.
C7_OneChildInOrder ==
    /\ Cardinality({i \in 1..Len(invoked) : Running(invoked[i])}) <= 1
    /\ \A i \in 1..Len(invoked) :
          /\ i < Len(invoked) => ~Running(invoked[i])
          /\ \E k \in 1..Len(ChainOf(orch)) : ChainOf(orch)[k] = invoked[i].script
    /\ \A i, j \in 1..Len(invoked) :
          i < j => ChainIndex(orch, invoked[i].script)
                     < ChainIndex(orch, invoked[j].script)

\* the fourth child of master_with_corrections.py runs after three others
\* have exited
C7_Witness ==
    /\ orch = "with_corrections"
    /\ Len(invoked) = 4
    /\ Running(invoked[4])
    /\ \A i \in 1..3 : invoked[i].status = "exited"

\* the run has --skip-spec although a later stage needs the spec
SM_SpecMissing(f) ==
    "spec" \in f.skip /\ ~({"action_plan", "milestones"} \subseteq f.skip)

\* C8 as stated: in scripts/master_auto.py, for every combination of the
\* --skip-* flags, a run that has chosen its version and in which every
\* invoked stage succeeds ends with exit status 0.
C8_SkipNeverFails ==
    (orch = "scripts_master" /\ pc = "done" /\ version # << >>
       /\ (\A i \in 1..Len(invoked) : Succeeded(invoked[i]))) =>
        exit_code = 0

\* C8 as amended: a run of scripts/master_auto.py that has chosen its version
\* and in which every invoked stage succeeds ends with exit status 0 unless
\* --skip-spec is given while the action plan or the milestones stage is not
\* skipped; then it ends with status 1 ("Need Technical Specification").
C8_SkipFailsOnlyWithoutSpec ==
    (orch = "scripts_master" /\ pc = "done" /\ version # << >>
       /\ (\A i \in 1..Len(invoked) : Succeeded(invoked[i]))) =>
        /\ ~SM_SpecMissing(flags) => exit_code = 0
        /\ SM_SpecMissing(flags) => exit_code = 1

\* a run with --skip-spec, --skip-action-plan, --skip-milestones and
\* --skip-gtm whose PRD stage succeeded
C8_Witness ==
    /\ orch = "scripts_master"
    /\ pc = "done"
    /\ exit_code = 0
    /\ flags.skip = {"spec", "action_plan", "milestones", "gtm"}
    /\ Len(invoked) = 1
    /\ Succeeded(invoked[1])

\* C10 as stated: in both master orchestrators, when the input argument
\* names a file that does not exist, the orchestrator exits non-zero without
\* invoking any stage.
C10_MissingInputFatal ==
    (orch \in {"root_master", "scripts_master"} /\ flags.input = "missing") =>
        /\ invoked = << >>
        /\ pc = "done" => exit_code # 0

\* C10 as amended: the root master_auto.py exits with status 1 without
\* invoking any stage when its input argument names no existing file;
\* scripts/master_auto.py takes such an argument as the raw text of the
\* product idea, writes it to a temporary file and hands that file to the
\* stages that read the product idea.
C10_MissingInputRootOnly ==
    /\ (orch = "root_master" /\ flags.input = "missing") =>
          /\ invoked = << >>
          /\ pc \in {"start", "done"}
          /\ pc = "done" => exit_code = 1
    /\ (orch = "scripts_master" /\ flags.input = "missing"
          /\ pc \notin {"start", "input"} /\ version # << >>) =>
          /\ input_path = TempFile
          /\ \A i \in 1..Len(invoked) :
                \A k \in 1..Len(invoked[i].argv) :
                    invoked[i].argv[k].val # InputArg

\* the root master_auto.py has ended on a missing input file
C10_Witness ==
    /\ orch = "root_master"
    /\ flags.input = "missing"
    /\ pc = "done"
    /\ exit_code = 1
    /\ invoked = << >>


\* ------------------------------------------------------------------------
\* The generation stage scripts of scripts/, each run on its own
\* ------------------------------------------------------------------------
MaxSections == 2

StageScripts ==
    {"scripts/prd_auto.py", "scripts/spec_auto.py",
     "scripts/action_plan_auto.py", "scripts/milestones_auto.py",
     "scripts/gtm_auto.py"}

\* a template row by its section name: one that contains "Validation", one
\* that contains "CTO" only, or any other
SectionKinds == {"plain", "validation", "cto"}

Templates ==
    UNION {[1..n -> SectionKinds] : n \in 0..MaxSections}

StageEnvs ==
    [key : BOOLEAN, args_ok : BOOLEAN, inputs_exist : BOOLEAN,
     validation_exists : BOOLEAN, template : Templates]

\* the scripts that call client.models.list() before any other work
HasPreflight(script) ==
    script \in {"scripts/prd_auto.py", "scripts/spec_auto.py",
                "scripts/action_plan_auto.py"}

\* the scripts that read a CSV template with one row per section
HasTemplate(script) ==
    script \in {"scripts/prd_auto.py", "scripts/spec_auto.py"}

\* the number of generation calls of a complete run
NumCalls(script, env) ==
    IF HasTemplate(script) THEN Len(env.template)
    ELSE IF script = "scripts/action_plan_auto.py" THEN 3
    ELSE 1

\* one entry of the log of remote calls: the API called and whether the
\* call returned a response
RemoteCall(call, ok) == [call |-> call, ok |-> ok]

\* a script that takes a failed generation call for a response and goes on
GenerationFailed_ignored(ok) == FALSE

\* client.chat.completions.create raised: the exception ends the script, or
\* the generate function returns None and main calls sys.exit(1)
GenerationFailed(ok) == ~ok

\* a key check that lets a missing key pass
KeyMissing_unchecked(env) == FALSE

\* os.getenv('OPENAI_API_KEY') gives nothing
KeyMissing(env) == ~env.key

\* the script whose section loop writes findings to the tracking file
WritesFinding(script, env, kind) ==
    \/ script = "scripts/prd_auto.py" /\ kind = "validation"
    \/ /\ script = "scripts/spec_auto.py"
       /\ kind \in {"validation", "cto"}
       /\ env.validation_exists

StageExit(code, msg) ==
    /\ st_pc' = "exit"
    /\ st_exit' = code
    /\ st_msg' = msg

InitStage ==
    /\ VerIdle
    /\ OrchIdle
    /\ FnIdle
    /\ st_script \in StageScripts
    /\ st_env \in StageEnvs
    /\ HasTemplate(st_script) \/ st_env.template = << >>
    /\ st_script = "scripts/spec_auto.py" \/ ~st_env.validation_exists
    /\ st_pc = "parse_args"
    /\ st_calls = 0
    /\ st_remote = << >>
    /\ st_fs = << >>
    /\ st_exit = -1
    /\ st_msg = ""

\* parser.parse_args(): a bad command line ends the script with status 2
S_ParseArgs ==
    /\ st_pc = "parse_args"
    /\ IF st_env.args_ok
       THEN /\ st_pc' = "check_key"
            /\ UNCHANGED <<st_exit, st_msg>>
       ELSE StageExit(2, "usage")
    /\ UNCHANGED <<verVars, orchVars, fnVars, st_script, st_env, st_calls, st_remote,
                   st_fs>>

\* the check of OPENAI_API_KEY
S_CheckKey ==
    /\ st_pc = "check_key"
    /\ IF KeyMissing(st_env)
       THEN StageExit(1, "OPENAI_API_KEY not found")
       ELSE /\ st_pc' = IF HasPreflight(st_script) THEN "preflight" ELSE "load"
            /\ UNCHANGED <<st_exit, st_msg>>
    /\ UNCHANGED <<verVars, orchVars, fnVars, st_script, st_env, st_calls, st_remote,
                   st_fs>>

\* client.models.list(); the except clauses name openai.AuthenticationError
\* and openai.RateLimitError, but the module binds only the name OpenAI, so
\* that looking up the first clause raises NameError for every exception
S_Preflight ==
    /\ st_pc = "preflight"
    /\ \E result \in {"ok", "authentication", "rate_limit", "other"} :
          /\ st_remote' = Append(st_remote,
                                  RemoteCall("models.list", result = "ok")
                                    @@ [raised |-> result])
          /\ IF result = "ok"
             THEN /\ st_pc' = "load"
                  /\ UNCHANGED <<st_exit, st_msg>>
             ELSE StageExit(1, "NameError: name 'openai' is not defined")
    /\ UNCHANGED <<verVars, orchVars, fnVars, st_script, st_env, st_calls, st_fs>>

\* the message of a script whose input file does not exist
MissingInputMessage(script) ==
    CASE script = "scripts/prd_auto.py" -> "FileNotFoundError"
      [] script = "scripts/spec_auto.py" -> "PRD file not found"
      [] script = "scripts/action_plan_auto.py" ->
           "Technical specification file not found"
      [] script = "scripts/milestones_auto.py" ->
           "Error: Technical specification file not found"
      [] script = "scripts/gtm_auto.py" -> "Error: PRD file not found"

\* the template and the input files are read
S_Load ==
    /\ st_pc = "load"
    /\ IF st_env.inputs_exist
       THEN /\ st_pc' = IF st_script = "scripts/prd_auto.py"
                        THEN "init_validation" ELSE "generate"
            /\ UNCHANGED <<st_exit, st_msg>>
       ELSE StageExit(1, MissingInputMessage(st_script))
    /\ UNCHANGED <<verVars, orchVars, fnVars, st_script, st_env, st_calls, st_remote,
                   st_fs>>

\* init_validation_file(args.validation_output) of scripts/prd_auto.py
S_InitValidation ==
    /\ st_pc = "init_validation"
    /\ st_fs' = st_fs \o <<[op |-> "makedirs", target |-> "validation_dir"],
                           [op |-> "write", target |-> "validation"]>>
    /\ st_pc' = "generate"
    /\ UNCHANGED <<verVars, orchVars, fnVars, st_script, st_env, st_calls, st_remote,
                   st_exit, st_msg>>

\* one pass of the section loop, or one of the generation calls: the remote
\* call, and the finding appended to the tracking file
S_Generate ==
    /\ st_pc = "generate"
    /\ IF st_calls = NumCalls(st_script, st_env)
       THEN /\ st_pc' = "write"
            /\ UNCHANGED <<st_calls, st_remote, st_fs, st_exit, st_msg>>
       ELSE \E ok \in BOOLEAN :
               /\ st_remote' = Append(st_remote,
                                      RemoteCall("chat.completions.create", ok))
               /\ IF ~GenerationFailed(ok)
                  THEN /\ st_calls' = st_calls + 1
                       /\ st_fs' =
                            IF HasTemplate(st_script)
                               /\ WritesFinding(st_script, st_env,
                                                st_env.template[st_calls + 1])
                            THEN Append(st_fs, [op |-> "append",
                                                target |-> "validation"])
                            ELSE st_fs
                       /\ UNCHANGED <<st_pc, st_exit, st_msg>>
                  ELSE /\ StageExit(1, IF HasPreflight(st_script)
                                       THEN "Traceback"
                                       ELSE "Failed to generate")
                       /\ UNCHANGED <<st_calls, st_fs>>
    /\ UNCHANGED <<verVars, orchVars, fnVars, st_script, st_env>>

\* the output directory is made and the document written; scripts/prd_auto.py
\* then appends the closing sections to the tracking file
S_Write ==
    /\ st_pc = "write"
    /\ st_fs' = st_fs \o <<[op |-> "makedirs", target |-> "output_dir"],
                           [op |-> "write", target |-> "output"]>>
                  \o (IF st_script = "scripts/prd_auto.py"
                      THEN <<[op |-> "append", target |-> "validation"]>>
                      ELSE << >>)
    /\ StageExit(0, "generated")
    /\ UNCHANGED <<verVars, orchVars, fnVars, st_script, st_env, st_calls, st_remote>>

NextStage ==
    \/ S_ParseArgs
    \/ S_CheckKey
    \/ S_Preflight
    \/ S_Load
    \/ S_InitValidation
    \/ S_Generate
    \/ S_Write

SpecStage == InitStage /\ [][NextStage]_vars

\* ------------------------------------------------------------------------
\* Claims about the stage scripts
\* ------------------------------------------------------------------------
\* C9: when OPENAI_API_KEY is not set, every generation stage script ends
\* with a fatal error and a non-zero status before any remote call is made
\* and before any file or directory is created, truncated or appended to.
C9_NoKeyNoEffects ==
    (st_script \in StageScripts /\ ~st_env.key) =>
        /\ st_remote = << >>
        /\ st_fs = << >>
        /\ st_pc \in {"parse_args", "check_key", "exit"}
        /\ st_pc = "exit" =>
              /\ st_exit # 0
              /\ st_env.args_ok => st_msg = "OPENAI_API_KEY not found"

\* scripts/prd_auto.py has ended on the missing key
C9_Witness ==
    /\ st_script = "scripts/prd_auto.py"
    /\ ~st_env.key
    /\ st_env.args_ok
    /\ st_pc = "exit"
    /\ st_exit = 1
    /\ st_msg = "OPENAI_API_KEY not found"


\* the stage has ended with a non-zero status
StageFailed == st_pc = "exit" /\ st_exit # 0

\* C11: when scripts/prd_auto.py or scripts/spec_auto.py fails at any
\* point, the stage has created or modified no file: its file effects
\* happen only in runs that fully succeed.
C11_FailureWritesNothing ==
    (st_script \in {"scripts/prd_auto.py", "scripts/spec_auto.py"}
       /\ StageFailed) =>
        st_fs = << >>

\* the output document has been written
OutputWritten ==
    \E i \in 1..Len(st_fs) : st_fs[i] = [op |-> "write", target |-> "output"]

\* C12: in every generation stage, once a remote generation call has
\* failed it is the last remote call of the stage: the stage has ended with
\* a non-zero status and its output document is not written.
C12_NoRetryAfterFailure ==
    \A i \in 1..Len(st_remote) :
        (st_remote[i].call = "chat.completions.create" /\ ~st_remote[i].ok) =>
            /\ i = Len(st_remote)
            /\ StageFailed
            /\ ~OutputWritten

\* scripts/action_plan_auto.py has ended on the failure of its second
\* generation call
C12_Witness ==
    /\ st_script = "scripts/action_plan_auto.py"
    /\ Len(st_remote) = 3
    /\ st_remote[2].ok
    /\ ~st_remote[3].ok
    /\ st_calls = 1
    /\ StageFailed


\* ------------------------------------------------------------------------
\* The section extractors of scripts/action_plan_auto.py and
\* scripts/milestones_auto.py, applied to markdown documents
\* ------------------------------------------------------------------------
MaxLines == 3

MaxPasses == 2

NL == "\n"

WhitespaceChars == {" ", NL}

\* str.lstrip(), str.rstrip() and str.strip()
RECURSIVE LStrip(_)
LStrip(s) ==
    IF Len(s) > 0 /\ Head(s) \in WhitespaceChars THEN LStrip(Tail(s)) ELSE s

RECURSIVE RStrip(_)
RStrip(s) ==
    IF Len(s) > 0 /\ s[Len(s)] \in WhitespaceChars
    THEN RStrip(SubSeq(s, 1, Len(s) - 1))
    ELSE s

Strip(s) == RStrip(LStrip(s))

\* sep.join(parts)
RECURSIVE StrJoin(_, _)
StrJoin(parts, sep) ==
    IF Len(parts) = 0 THEN << >>
    ELSE IF Len(parts) = 1 THEN parts[1]
    ELSE parts[1] \o sep \o StrJoin(Tail(parts), sep)

\* the prefix '## ' of a section header line
Sheader == <<"#", "#", " ">>

Spurpose_scope ==
    <<"P", "u", "r", "p", "o", "s", "e", " ", "&", " ", "S", "c", "o", "p",
      "e">>

Skey_components ==
    <<"K", "e", "y", " ", "C", "o", "m", "p", "o", "n", "e", "n", "t", "s">>

Sexternal_integrations ==
    <<"E", "x", "t", "e", "r", "n", "a", "l", " ", "I", "n", "t", "e", "g",
      "r", "a", "t", "i", "o", "n", "s", " ", "&", " ", "A", "P", "I", "s">>

Simplementation_roadmap ==
    <<"I", "m", "p", "l", "e", "m", "e", "n", "t", "a", "t", "i", "o", "n",
      " ", "R", "o", "a", "d", "m", "a", "p">>

Sopen_questions ==
    <<"O", "p", "e", "n", " ", "Q", "u", "e", "s", "t", "i", "o", "n", "s",
      " ", "&", " ", "A", "s", "s", "u", "m", "p", "t", "i", "o", "n", "s">>

Sarchitecture_diagram ==
    <<"H", "i", "g", "h", "-", "L", "e", "v", "e", "l", " ", "A", "r", "c",
      "h", "i", "t", "e", "c", "t", "u", "r", "e", " ", "D", "i", "a", "g",
      "r", "a", "m">>

Sdata_models ==
    <<"D", "a", "t", "a", " ", "M", "o", "d", "e", "l", "s", " ", "&", " ",
      "S", "c", "h", "e", "m", "a", "s">>

Scritical_unknowns ==
    <<"C", "r", "i", "t", "i", "c", "a", "l", " ", "U", "n", "k", "n", "o",
      "w", "n", "s", " ", "&", " ", "V", "a", "l", "i", "d", "a", "t", "i",
      "o", "n", "s">>

Sguiding_principles ==
    <<"G", "u", "i", "d", "i", "n", "g", " ", "P", "r", "i", "n", "c", "i",
      "p", "l", "e", "s">>

Smilestones ==
    <<"M", "i", "l", "e", "s", "t", "o", "n", "e", "s">>

Sappendix ==
    <<"A", "p", "p", "e", "n", "d", "i", "x">>

Stechnical_spec_label ==
    <<"T", "e", "c", "h", "n", "i", "c", "a", "l", " ", "S", "p", "e", "c",
      " ">>

Salpha ==
    <<"a", "l", "p", "h", "a">>

Sbeta_padded ==
    <<" ", "b", "e", "t", "a", " ">>

\* d[k] = v on a dict
DictPut(d, k, v) == [x \in DOMAIN d \cup {k} |-> IF x = k THEN v ELSE d[x]]

ExtractStart ==
    [sections |-> << >>, current_section |-> << >>, current_content |-> << >>]

\* "save previous section": None and '' are both false
SaveSection(st) ==
    IF st.current_section # << >>
    THEN DictPut(st.sections, st.current_section,
                 Strip(StrJoin(st.current_content, <<NL>>)))
    ELSE st.sections

\* a loop body that does not empty current_content at a new header
ExtractStep_keeps_content(st, line) ==
    IF StartsWith(line, Sheader)
    THEN [sections |-> SaveSection(st),
          current_section |-> Strip(SubSeq(line, 4, Len(line))),
          current_content |-> st.current_content]
    ELSE IF st.current_section # << >>
         THEN [st EXCEPT !.current_content = Append(@, line)]
         ELSE st

\* the body of the loop over the lines in extract_spec_sections and
\* extract_prd_sections
ExtractStep(st, line) ==
    IF StartsWith(line, Sheader)
    THEN [sections |-> SaveSection(st),
          current_section |-> Strip(SubSeq(line, 4, Len(line))),
          current_content |-> << >>]
    ELSE IF st.current_section # << >>
         THEN [st EXCEPT !.current_content = Append(@, line)]
         ELSE st

RECURSIVE ExtractLoop(_, _)
ExtractLoop(lines, st) ==
    IF Len(lines) = 0 THEN st
    ELSE ExtractLoop(Tail(lines), ExtractStep(st, Head(lines)))

extract_spec_sections(spec_content) ==
    SaveSection(ExtractLoop(StrSplit(spec_content, <<NL>>), ExtractStart))

extract_prd_sections(prd_content) ==
    SaveSection(ExtractLoop(StrSplit(prd_content, <<NL>>), ExtractStart))

key_spec_sections ==
    <<Spurpose_scope, Skey_components, Sexternal_integrations,
      Simplementation_roadmap, Sopen_questions>>

\* base_context_parts of scripts/action_plan_auto.py
base_context_parts(spec_sections) ==
    LET present(section) == section \in DOMAIN spec_sections
        found == SelectSeq(key_spec_sections, present)
    IN  [i \in 1..Len(found) |->
            Stechnical_spec_label \o found[i] \o <<":", NL>>
              \o spec_sections[found[i]]]

\* base_context of scripts/action_plan_auto.py, from the specification alone
base_context(tech_spec_content) ==
    StrJoin(base_context_parts(extract_spec_sections(tech_spec_content)),
            <<NL, NL>>)

critical_sections(content_type) ==
    CASE content_type = "tech_spec" ->
           {Spurpose_scope, Sarchitecture_diagram, Skey_components,
            Sdata_models, Sexternal_integrations, Simplementation_roadmap}
      [] content_type = "action_plan" ->
           {Scritical_unknowns, Sguiding_principles, Smilestones}
      [] OTHER -> {}

CriticalStart == [extracted_content |-> << >>, in_critical_section |-> FALSE]

\* the body of the loop over the lines in extract_critical_sections
CriticalStep(st, line, content_type) ==
    IF StartsWith(line, Sheader)
    THEN IF Strip(StrReplace(line, Sheader, << >>))
              \in critical_sections(content_type)
         THEN [extracted_content |->
                   Append(st.extracted_content, <<NL>> \o line),
               in_critical_section |-> TRUE]
         ELSE [st EXCEPT !.in_critical_section = FALSE]
    ELSE IF st.in_critical_section
         THEN [st EXCEPT !.extracted_content = Append(@, line)]
         ELSE st

RECURSIVE CriticalLoop(_, _, _)
CriticalLoop(lines, st, content_type) ==
    IF Len(lines) = 0 THEN st
    ELSE CriticalLoop(Tail(lines), CriticalStep(st, Head(lines), content_type),
                      content_type)

extract_critical_sections(content, content_type) ==
    IF content_type \in {"tech_spec", "action_plan"}
    THEN StrJoin(CriticalLoop(StrSplit(content, <<NL>>), CriticalStart,
                              content_type).extracted_content, <<NL>>)
    ELSE content

\* the lines the documents are made of
DocLines ==
    {Sheader \o Spurpose_scope,
     Sheader \o Skey_components,
     Sheader \o Smilestones,
     Sheader \o Sappendix,
     <<"#">> \o Sheader \o Skey_components,
     Sheader,
     Salpha,
     Sbeta_padded,
     << >>}

Documents == UNION {[1..n -> DocLines] : n \in 0..MaxLines}

ContentTypes == {"tech_spec", "action_plan", "other"}

InitDoc ==
    /\ VerIdle
    /\ OrchIdle
    /\ StageIdle
    /\ \E d \in Documents :
          fn_args = [kind |-> "markdown", content |-> StrJoin(d, <<NL>>)]
    /\ fn_call = NoFnCall

D_ExtractSpecSections ==
    /\ fn_args.kind = "markdown"
    /\ fn_call' = [fn |-> "extract_spec_sections",
                   result |-> extract_spec_sections(fn_args.content)]
    /\ UNCHANGED <<verVars, orchVars, stageVars, fn_args>>

D_ExtractPrdSections ==
    /\ fn_args.kind = "markdown"
    /\ fn_call' = [fn |-> "extract_prd_sections",
                   result |-> extract_prd_sections(fn_args.content)]
    /\ UNCHANGED <<verVars, orchVars, stageVars, fn_args>>

D_BaseContext ==
    /\ fn_args.kind = "markdown"
    /\ fn_call' = [fn |-> "base_context",
                   result |-> base_context(fn_args.content)]
    /\ UNCHANGED <<verVars, orchVars, stageVars, fn_args>>

D_ExtractCritical(content_type) ==
    /\ fn_args.kind = "markdown"
    /\ fn_call' = [fn |-> "extract_critical_sections",
                   content_type |-> content_type,
                   input |-> fn_args.content,
                   result |-> extract_critical_sections(fn_args.content,
                                                        content_type),
                   pass |-> 1]
    /\ UNCHANGED <<verVars, orchVars, stageVars, fn_args>>

\* the extractor is applied again, to what it returned
D_ReExtract ==
    /\ fn_call.fn = "extract_critical_sections"
    /\ fn_call.pass < MaxPasses
    /\ fn_call' = [fn_call EXCEPT
                     !.input = fn_call.result,
                     !.result = extract_critical_sections(fn_call.result,
                                                          fn_call.content_type),
                     !.pass = @ + 1]
    /\ UNCHANGED <<verVars, orchVars, stageVars, fn_args>>

NextDoc ==
    \/ D_ExtractSpecSections
    \/ D_ExtractPrdSections
    \/ D_BaseContext
    \/ \E content_type \in ContentTypes : D_ExtractCritical(content_type)
    \/ D_ReExtract

SpecDoc == InitDoc /\ [][NextDoc]_vars


\* ------------------------------------------------------------------------
\* Claims about the section extractors
\* ------------------------------------------------------------------------
\* the line is the '## ' header of the section called name
IsHeaderOf(line, name) ==
    StartsWith(line, Sheader) /\ Strip(SubSeq(line, 4, Len(line))) = name

HeadersOf(lines, name) == {i \in 1..Len(lines) : IsHeaderOf(lines[i], name)}

\* the text between the header at line i and the next '## ' line, or the
\* end of the document, without the white space around it
TextBetween(lines, i) ==
    LET later == {j \in (i + 1)..Len(lines) : StartsWith(lines[j], Sheader)}
        stop == IF later = {} THEN Len(lines) + 1
                ELSE CHOOSE j \in later : \A k \in later : j <= k
    IN  Strip(StrJoin(SubSeq(lines, i + 1, stop - 1), <<NL>>))

\* C13: the context scripts/action_plan_auto.py builds from a technical
\* specification is made of one part for each name of key_spec_sections
\* that occurs as a '## ' header, in the order of that list; the part holds
\* the text between that header (the last one of that name) and the next
\* '## ' line or the end of the document; other headers and the text before
\* the first header add nothing.
C13_ContextFromKeySections ==
    fn_call.fn = "base_context" =>
        LET lines == StrSplit(fn_args.content, <<NL>>)
            occurs(name) == HeadersOf(lines, name) # {}
            present == SelectSeq(key_spec_sections, occurs)
            last(name) == SetMax(HeadersOf(lines, name))
        IN  fn_call.result =
              StrJoin([k \in 1..Len(present) |->
                         Stechnical_spec_label \o present[k] \o <<":", NL>>
                           \o TextBetween(lines, last(present[k]))],
                      <<NL, NL>>)

\* the context of a document made of a line of text, the Key Components
\* header and a padded line of text
C13_Witness ==
    /\ fn_call.fn = "base_context"
    /\ fn_args.content =
         StrJoin(<<Salpha, Sheader \o Skey_components, Sbeta_padded>>, <<NL>>)
    /\ fn_call.result =
         Stechnical_spec_label \o Skey_components \o <<":", NL>>
           \o <<"b", "e", "t", "a">>

RecognizedNames ==
    {key_spec_sections[i] : i \in 1..Len(key_spec_sections)}
      \cup critical_sections("tech_spec") \cup critical_sections("action_plan")

\* C14: for every document, one with a repeated header included, each
\* extractor yields exactly one entry for each recognized section name that
\* is present, and the entry holds the text between a header of that name
\* and the next '## ' header.
C14_OneEntryPerSection ==
    LET lines == StrSplit(fn_args.content, <<NL>>)
    IN  /\ fn_call.fn \in {"extract_spec_sections", "extract_prd_sections"} =>
              \A name \in RecognizedNames :
                  HeadersOf(lines, name) # {} =>
                      /\ name \in DOMAIN fn_call.result
                      /\ \E i \in HeadersOf(lines, name) :
                            fn_call.result[name] = TextBetween(lines, i)
        /\ (fn_call.fn = "extract_critical_sections" /\ fn_call.pass = 1
              /\ fn_call.content_type \in {"tech_spec", "action_plan"}) =>
              LET out == StrSplit(fn_call.result, <<NL>>)
              IN  \A name \in critical_sections(fn_call.content_type) :
                      HeadersOf(lines, name) # {} =>
                          /\ Cardinality(HeadersOf(out, name)) = 1
                          /\ \E i \in HeadersOf(lines, name) :
                                \A o \in HeadersOf(out, name) :
                                    TextBetween(out, o) = TextBetween(lines, i)

\* C15: extracting the critical sections of what extract_critical_sections
\* returned gives the same text again, for the content types tech_spec and
\* action_plan.
C15_ExtractionIdempotent ==
    (fn_call.fn = "extract_critical_sections" /\ fn_call.pass = 2
       /\ fn_call.content_type \in {"tech_spec", "action_plan"}) =>
        fn_call.result = fn_call.input


\* ------------------------------------------------------------------------
\* The prompt of kaia/scripts/action_plan_auto.py: the template with its
\* two placeholders replaced
\* ------------------------------------------------------------------------
MaxFragments == 3

SPEC_MD == <<"{", "{", "S", "P", "E", "C", "_", "M", "D", "}", "}">>

PRD_MD == <<"{", "{", "P", "R", "D", "_", "M", "D", "}", "}">>

Sprd_open == <<"<", "P", "R", "D", ">", NL>>

\* the pieces the templates are made of
TemplateFragments == {SPEC_MD, PRD_MD, Sprd_open, <<"t">>}

\* concatenation of a sequence of character sequences
Concat(parts) == StrJoin(parts, << >>)

Templates_md ==
    {Concat(f) : f \in UNION {[1..n -> TemplateFragments] : n \in 0..MaxFragments}}

\* what the input files can hold
FileTexts ==
    {<< >>, <<"s">>, <<"p">>, SPEC_MD, PRD_MD, <<" ", "q", NL>>}

\* --prd-file: not given, given but not an existing path, or an existing file
PrdFileArgs == {"none", "missing", "file"}

\* sub in s
Contains(s, sub) ==
    \E i \in 1..(Len(s) - Len(sub) + 1) : SubSeq(s, i, i + Len(sub) - 1) = sub

\* prd_context: the stripped text of the PRD file, '' without such a file
prd_context(prd_file, prd_text) ==
    IF prd_file = "file" THEN Strip(prd_text) ELSE << >>

\* template.replace("{{SPEC_MD}}", ...).replace("{{PRD_MD}}", ...)
prompt(template, tech_spec_content, prd_value) ==
    StrReplace(StrReplace(template, SPEC_MD, tech_spec_content),
               PRD_MD, prd_value)

InitTemplate ==
    /\ VerIdle
    /\ OrchIdle
    /\ StageIdle
    /\ \E t \in Templates_md, s \in FileTexts, f \in PrdFileArgs, p \in FileTexts :
          /\ f = "file" \/ p = << >>
          /\ fn_args = [kind |-> "template", template |-> t, spec_text |-> s,
                        prd_file |-> f, prd_text |-> p]
    /\ fn_call = NoFnCall

\* the script reads its inputs and builds the prompt
T_BuildPrompt ==
    /\ fn_args.kind = "template"
    /\ fn_call = NoFnCall
    /\ LET tech_spec_content == Strip(fn_args.spec_text)
           prd_value == prd_context(fn_args.prd_file, fn_args.prd_text)
       IN  fn_call' = [fn |-> "prompt",
                       spec_value |-> tech_spec_content,
                       prd_value |-> prd_value,
                       result |-> prompt(fn_args.template, tech_spec_content,
                                         prd_value)]
    /\ UNCHANGED <<verVars, orchVars, stageVars, fn_args>>

NextTemplate == T_BuildPrompt

SpecTemplate == InitTemplate /\ [][NextTemplate]_vars

\* ------------------------------------------------------------------------
\* Claims about the prompt
\* ------------------------------------------------------------------------
\* C16: replacing {{SPEC_MD}} and then {{PRD_MD}}, as the script does, gives
\* the same text as replacing {{PRD_MD}} and then {{SPEC_MD}}, for every
\* template and every pair of replacement values.
C16_OrderIndependent ==
    fn_call.fn = "prompt" =>
        fn_call.result =
          StrReplace(StrReplace(fn_args.template, PRD_MD, fn_call.prd_value),
                     SPEC_MD, fn_call.spec_value)

\* C17: for a template that holds both placeholders and two non-empty
\* replacement values, the prompt holds neither {{SPEC_MD}} nor {{PRD_MD}}
\* and holds both replacement values.
C17_SubstitutionTotal ==
    (fn_call.fn = "prompt"
       /\ Contains(fn_args.template, SPEC_MD)
       /\ Contains(fn_args.template, PRD_MD)
       /\ fn_call.spec_value # << >>
       /\ fn_call.prd_value # << >>) =>
        /\ ~Contains(fn_call.result, SPEC_MD)
        /\ ~Contains(fn_call.result, PRD_MD)
        /\ Contains(fn_call.result, fn_call.spec_value)
        /\ Contains(fn_call.result, fn_call.prd_value)

\* C18: without a PRD file (no --prd-file, or a path that does not exist)
\* the {{PRD_MD}} placeholder does not remain in the prompt and is replaced
\* by a non-empty text, a marker of the missing PRD.
C18_EmptyMarker ==
    (fn_call.fn = "prompt" /\ fn_args.prd_file # "file"
       /\ Contains(fn_args.template, PRD_MD)) =>
        /\ ~Contains(fn_call.result, PRD_MD)
        /\ fn_call.prd_value # << >>


\* ------------------------------------------------------------------------
\* scripts/architecture_corrector.py, run on its own
\* ------------------------------------------------------------------------
Stxt == <<".", "t", "x", "t">>

\* the paths the command line can name
CorrectorPaths ==
    {Sprd \o Smd, Stech_spec \o Smd, Svalidation_tracking, Sprd \o Stxt,
     StrReplace(Sprd \o Smd, Smd, Scorrected)}

CorrectorEnvs ==
    [key : BOOLEAN, inputs_exist : BOOLEAN, findings : BOOLEAN,
     prd_file : CorrectorPaths, spec_file : CorrectorPaths,
     validation_file : CorrectorPaths]

\* prd_file.replace('.md', '_corrected.md')
corrected_name(file) == StrReplace(file, Smd, Scorrected)

FileWrite(path) == [op |-> "write", target |-> path]

InitCorrector ==
    /\ VerIdle
    /\ OrchIdle
    /\ FnIdle
    /\ st_script = "scripts/architecture_corrector.py"
    /\ st_env \in CorrectorEnvs
    /\ st_env.prd_file # st_env.spec_file
    /\ st_env.prd_file # st_env.validation_file
    /\ st_env.spec_file # st_env.validation_file
    /\ st_pc = "analyze"
    /\ st_calls = 0
    /\ st_remote = << >>
    /\ st_fs = << >>
    /\ st_exit = -1
    /\ st_msg = ""

\* analyze_validation_findings: the tracking file is read; main returns when
\* nothing needs correction
AC_Analyze ==
    /\ st_pc = "analyze"
    /\ IF ~st_env.inputs_exist
       THEN StageExit(1, "FileNotFoundError")
       ELSE IF ~st_env.findings
            THEN StageExit(0, "No corrections needed")
            ELSE /\ st_pc' = "apply"
                 /\ UNCHANGED <<st_exit, st_msg>>
    /\ UNCHANGED <<verVars, orchVars, fnVars, st_script, st_env, st_calls,
                   st_remote, st_fs>>

\* apply_architecture_corrections: the key check, the two files read and the
\* remote call
AC_Apply ==
    /\ st_pc = "apply"
    /\ IF KeyMissing(st_env)
       THEN /\ StageExit(1, "OPENAI_API_KEY not found")
            /\ UNCHANGED st_remote
       ELSE \E ok \in BOOLEAN :
               /\ st_remote' = Append(st_remote,
                                      RemoteCall("chat.completions.create", ok))
               /\ IF GenerationFailed(ok)
                  THEN StageExit(1, "Traceback")
                  ELSE /\ st_pc' = "update_files"
                       /\ UNCHANGED <<st_exit, st_msg>>
    /\ UNCHANGED <<verVars, orchVars, fnVars, st_script, st_env, st_calls,
                   st_fs>>

\* update_files_with_corrections
AC_UpdateFiles ==
    /\ st_pc = "update_files"
    /\ st_fs' = st_fs \o <<FileWrite(corrected_name(st_env.prd_file)),
                           FileWrite(corrected_name(st_env.spec_file))>>
    /\ st_pc' = "update_tracking"
    /\ UNCHANGED <<verVars, orchVars, fnVars, st_script, st_env, st_calls,
                   st_remote, st_exit, st_msg>>

\* update_validation_tracking, and the end of main
AC_UpdateTracking ==
    /\ st_pc = "update_tracking"
    /\ st_fs' = Append(st_fs, FileWrite(st_env.validation_file))
    /\ StageExit(0, "Corrections applied")
    /\ UNCHANGED <<verVars, orchVars, fnVars, st_script, st_env, st_calls,
                   st_remote>>

NextCorrector ==
    \/ AC_Analyze
    \/ AC_Apply
    \/ AC_UpdateFiles
    \/ AC_UpdateTracking

SpecCorrector == InitCorrector /\ [][NextCorrector]_vars

\* C19: during a run of scripts/architecture_corrector.py, for every PRD
\* path and spec path on the command line, the original PRD file and the
\* original spec file are not written: the corrector writes only to separate
\* *_corrected.md files and to the validation tracking file.
C19_OriginalsUnchanged ==
    st_script = "scripts/architecture_corrector.py" =>
        \A i \in 1..Len(st_fs) :
            /\ st_fs[i].target \notin {st_env.prd_file, st_env.spec_file}
            /\ \/ EndsWith(st_fs[i].target, Scorrected)
               \/ st_fs[i].target = st_env.validation_file


\* ------------------------------------------------------------------------
\* The scripts of scripts/ imported as modules (from scripts import ...)
\* ------------------------------------------------------------------------
ImportedScripts ==
    {"scripts/action_plan_auto.py", "scripts/prd_auto.py",
     "scripts/spec_auto.py", "scripts/master_auto.py"}

\* the scripts whose work is in main(), called under
\* if __name__ == "__main__"
HasMainGuard(script) ==
    script \in {"scripts/master_auto.py", "scripts/milestones_auto.py",
                "scripts/gtm_auto.py"}

\* the environment of the importing process; args_ok says whether the
\* script's parser accepts the command line of the importing process
ImportEnvs ==
    [key : BOOLEAN, args_ok : BOOLEAN, inputs_exist : BOOLEAN,
     validation_exists : BOOLEAN, template : Templates, imported : {TRUE}]

InitImport ==
    /\ VerIdle
    /\ OrchIdle
    /\ FnIdle
    /\ st_script \in ImportedScripts
    /\ st_env \in ImportEnvs
    /\ HasTemplate(st_script) \/ st_env.template = << >>
    /\ st_script = "scripts/spec_auto.py" \/ ~st_env.validation_exists
    /\ st_pc = "import"
    /\ st_calls = 0
    /\ st_remote = << >>
    /\ st_fs = << >>
    /\ st_exit = -1
    /\ st_msg = ""

\* the import statement runs the module's top-level code: the definitions
\* and the guarded call of main() for a script with a main guard, the whole
\* script for the others
I_Import ==
    /\ st_pc = "import"
    /\ st_pc' = IF HasMainGuard(st_script) THEN "imported" ELSE "parse_args"
    /\ UNCHANGED <<verVars, orchVars, fnVars, st_script, st_env, st_calls,
                   st_remote, st_fs, st_exit, st_msg>>

NextImport ==
    \/ I_Import
    \/ NextStage

SpecImport == InitImport /\ [][NextImport]_vars

\* C20: importing action_plan_auto, prd_auto, spec_auto or master_auto of
\* scripts/ parses no command line, checks no credential, makes no remote
\* call, writes no file and cannot end the importing process: the import
\* only defines the module.
C20_ImportHasNoEffects ==
    (st_script \in ImportedScripts /\ "imported" \in DOMAIN st_env) =>
        /\ st_pc \in {"import", "imported"}
        /\ st_remote = << >>
        /\ st_fs = << >>
        /\ st_exit = -1


\* ------------------------------------------------------------------------
\* Claims about scripts/master_with_corrections.py and the root master
\* ------------------------------------------------------------------------
\* C21: in scripts/master_with_corrections.py, a failure of one of the
\* first three steps is the last step invoked and ends the run with status
\* 1; the correction step is invoked only after three successful steps and
\* without --skip-corrections; a failed correction step leaves the exit
\* status at 0.
C21_CorrectionsPipeline ==
    orch = "with_corrections" =>
        /\ \A i \in 1..Len(invoked) :
              (i <= 3 /\ Failed(invoked[i])) =>
                  /\ Len(invoked) = i
                  /\ ~waiting => (pc = "done" /\ exit_code = 1)
        /\ Len(invoked) <= 4
        /\ Len(invoked) = 4 =>
              /\ \A i \in 1..3 : Succeeded(invoked[i])
              /\ ~flags.skip_corrections
              /\ invoked[4].script = "scripts/architecture_corrector.py"
              /\ (~Running(invoked[4]) /\ ~waiting) =>
                    (pc = "done" /\ exit_code = 0)
        /\ (pc = "done" /\ exit_code = 0 /\ Len(invoked) >= 3) =>
              \A i \in 1..3 : Succeeded(invoked[i])

\* the correction step has failed and the run has ended with status 0
C21_Witness ==
    /\ orch = "with_corrections"
    /\ Len(invoked) = 4
    /\ Failed(invoked[4])
    /\ pc = "done"
    /\ exit_code = 0


\* the paths a command line names as inputs: the positionals and the values
\* of --prd-file and --product-idea
InputPaths(argv) ==
    {argv[k].val : k \in {j \in 1..Len(argv) :
                            argv[j].opt \in {"", "--prd-file", "--product-idea"}}}

\* the child processes of the run that ran the script
ChildrenOf(script) == {i \in 1..Len(invoked) : invoked[i].script = script}

\* C22: in the root master_auto.py a skipped PRD (spec) stage lets the run
\* go on only with an existing --existing-prd (--existing-spec) file, which
\* is then the PRD (spec) input of every later stage; otherwise the run
\* exits non-zero and no later stage is invoked.  Every input path handed to
\* a stage is the validated input file, such an existing file, or the output
\* path of a stage that succeeded earlier in the run.
C22_SkippedStageInputs ==
    orch = "root_master" =>
        /\ ("prd" \in flags.skip /\ flags.existing_prd # "file") =>
              /\ invoked = << >>
              /\ pc \in {"start", "prd", "done"}
              /\ pc = "done" => exit_code # 0
        /\ ("spec" \in flags.skip /\ flags.existing_spec # "file") =>
              /\ ChildrenOf("action_plan_auto.py") = {}
              /\ pc \notin {"action_plan", "summary"}
              /\ pc = "done" => exit_code # 0
        /\ "prd" \in flags.skip =>
              /\ \A i \in ChildrenOf("spec_auto.py") :
                    invoked[i].argv[1] = Pos(ExistingPrd)
              /\ \A i \in ChildrenOf("action_plan_auto.py") :
                    Opt("--prd-file", ExistingPrd)
                      \in {invoked[i].argv[k] : k \in 1..Len(invoked[i].argv)}
        /\ "spec" \in flags.skip =>
              \A i \in ChildrenOf("action_plan_auto.py") :
                  invoked[i].argv[1] = Pos(ExistingSpec)
        /\ \A i \in 1..Len(invoked) :
              \A p \in InputPaths(invoked[i].argv) :
                  \/ p = InputArg /\ flags.input = "file"
                  \/ p = ExistingPrd /\ flags.existing_prd = "file"
                  \/ p = ExistingSpec /\ flags.existing_spec = "file"
                  \/ \E j \in 1..(i - 1) :
                        /\ Succeeded(invoked[j])
                        /\ OutputOf(invoked[j].argv) = p

\* --skip-prd with an existing PRD: the spec and the action plan stage have
\* been started on that file
C22_Witness ==
    /\ orch = "root_master"
    /\ flags.skip = {"prd"}
    /\ flags.existing_prd = "file"
    /\ Len(invoked) = 2
    /\ invoked[1].argv[1] = Pos(ExistingPrd)
    /\ Succeeded(invoked[1])
    /\ invoked[2].argv[1] = Pos(OutputOf(invoked[1].argv))
    /\ invoked[2].argv[2] = Opt("--prd-file", ExistingPrd)


\* ------------------------------------------------------------------------
\* The validation tracking file: scripts/validation_extractor.py and the
\* tracking functions of scripts/architecture_corrector.py
\* ------------------------------------------------------------------------
UpperChars ==
    <<"A", "B", "C", "D", "E", "F", "G", "H", "I", "J", "K", "L", "M",
      "N", "O", "P", "Q", "R", "S", "T", "U", "V", "W", "X", "Y", "Z">>

LowerChars ==
    <<"a", "b", "c", "d", "e", "f", "g", "h", "i", "j", "k", "l", "m",
      "n", "o", "p", "q", "r", "s", "t", "u", "v", "w", "x", "y", "z">>

\* str.lower()
StrLower(s) ==
    [i \in 1..Len(s) |->
        IF \E k \in 1..26 : UpperChars[k] = s[i]
        THEN LowerChars[CHOOSE k \in 1..26 : UpperChars[k] = s[i]]
        ELSE s[i]]

\* where the lazy group of  header(.*?)(?=##|$)  ends when it starts at
\* start: before the first '##', at the end of the text, or before a last
\* newline
LookaheadStop(s, start) ==
    LET stops == {p \in start..(Len(s) + 1) :
                    \/ p = Len(s) + 1
                    \/ p = Len(s) /\ s[p] = NL
                    \/ p < Len(s) /\ s[p] = "#" /\ s[p + 1] = "#"}
    IN  CHOOSE p \in stops : \A q \in stops : p <= q

\* re.search(header + r'(.*?)(?=##|$)', content, re.DOTALL): the match and
\* the stripped group
ReSearchSection(content, header) ==
    LET h == FindFrom(content, header, 1)
        start == h + Len(header)
    IN  IF h = 0 THEN [matched |-> FALSE, group |-> << >>]
        ELSE [matched |-> TRUE,
              group |-> Strip(SubSeq(content, start,
                                     LookaheadStop(content, start) - 1))]

\* re.sub(header + r'.*?(?=##|$)', repl, content, flags=re.DOTALL): every
\* match is replaced
RECURSIVE ReSubSection(_, _, _)
ReSubSection(content, header, repl) ==
    LET h == FindFrom(content, header, 1)
        stop == LookaheadStop(content, h + Len(header))
    IN  IF h = 0 THEN content
        ELSE SubSeq(content, 1, h - 1) \o repl
               \o ReSubSection(SubSeq(content, stop, Len(content)), header, repl)

Stracking_title ==
    <<"#", " ", "T", "e", "c", "h", "n", "i", "c", "a", "l", " ", "V", "a",
      "l", "i", "d", "a", "t", "i", "o", "n", " ", "T", "r", "a", "c", "k",
      "i", "n", "g", "\n", "\n", "T", "h", "i", "s", " ", "d", "o", "c", "u",
      "m", "e", "n", "t", " ", "t", "r", "a", "c", "k", "s", " ", "v", "a",
      "l", "i", "d", "a", "t", "i", "o", "n", " ", "f", "i", "n", "d", "i",
      "n", "g", "s", " ", "a", "n", "d", " ", "c", "o", "r", "r", "e", "c",
      "t", "i", "o", "n", "s", " ", "a", "p", "p", "l", "i", "e", "d", " ",
      "t", "o", " ", "t", "h", "e", " ", "t", "e", "c", "h", "n", "i", "c",
      "a", "l", " ", "a", "r", "c", "h", "i", "t", "e", "c", "t", "u", "r",
      "e", ".", "\n", "\n">>

Sfindings_by_section ==
    <<"#", "#", " ", "V", "a", "l", "i", "d", "a", "t", "i", "o", "n", " ",
      "F", "i", "n", "d", "i", "n", "g", "s", " ", "b", "y", " ", "S", "e",
      "c", "t", "i", "o", "n", "\n", "\n">>

Scorrections_applied ==
    <<"#", "#", " ", "C", "o", "r", "r", "e", "c", "t", "i", "o", "n", "s",
      " ", "A", "p", "p", "l", "i", "e", "d">>

Scorrections_note ==
    <<"*", "T", "h", "i", "s", " ", "s", "e", "c", "t", "i", "o", "n", " ",
      "w", "i", "l", "l", " ", "b", "e", " ", "u", "p", "d", "a", "t", "e",
      "d", " ", "a", "f", "t", "e", "r", " ", "p", "o", "s", "t", "-", "g",
      "e", "n", "e", "r", "a", "t", "i", "o", "n", " ", "c", "o", "r", "r",
      "e", "c", "t", "i", "o", "n", "s", " ", "a", "r", "e", " ", "a", "p",
      "p", "l", "i", "e", "d", ".", "*", "\n", "\n">>

Sarchitecture_changes ==
    <<"#", "#", "#", " ", "A", "r", "c", "h", "i", "t", "e", "c", "t", "u",
      "r", "e", " ", "C", "h", "a", "n", "g", "e", "s", " ", "M", "a", "d",
      "e", "\n">>

Sissues_resolved ==
    <<"#", "#", "#", " ", "V", "a", "l", "i", "d", "a", "t", "i", "o", "n",
      " ", "I", "s", "s", "u", "e", "s", " ", "R", "e", "s", "o", "l", "v",
      "e", "d", "\n">>

Sremaining_issues ==
    <<"#", "#", "#", " ", "R", "e", "m", "a", "i", "n", "i", "n", "g", " ",
      "O", "p", "e", "n", " ", "I", "s", "s", "u", "e", "s", "\n">>

Spending ==
    <<"-", " ", "*", "P", "e", "n", "d", "i", "n", "g", " ", "c", "o", "r",
      "r", "e", "c", "t", "i", "o", "n", " ", "a", "n", "a", "l", "y", "s",
      "i", "s", "*", "\n">>

Scto_validation ==
    <<"C", "T", "O", " ", "T", "e", "c", "h", "n", "i", "c", "a", "l", " ",
      "V", "a", "l", "i", "d", "a", "t", "i", "o", "n">>

Stechnical_validation_decisions ==
    <<"T", "e", "c", "h", "n", "i", "c", "a", "l", " ", "V", "a", "l", "i",
      "d", "a", "t", "i", "o", "n", " ", "F", "i", "n", "d", "i", "n", "g",
      "s", " ", "&", " ", "D", "e", "c", "i", "s", "i", "o", "n", "s">>

Stechnical_validation_findings ==
    <<"T", "e", "c", "h", "n", "i", "c", "a", "l", " ", "V", "a", "l", "i",
      "d", "a", "t", "i", "o", "n", " ", "F", "i", "n", "d", "i", "n", "g",
      "s">>

Sno_cto ==
    <<"*", "N", "o", " ", "C", "T", "O", " ", "v", "a", "l", "i", "d", "a",
      "t", "i", "o", "n", " ", "f", "o", "u", "n", "d", " ", "i", "n", " ",
      "s", "p", "e", "c", "i", "f", "i", "c", "a", "t", "i", "o", "n", ".",
      "*", "\n">>

Sno_technical ==
    <<"*", "N", "o", " ", "t", "e", "c", "h", "n", "i", "c", "a", "l", " ",
      "v", "a", "l", "i", "d", "a", "t", "i", "o", "n", " ", "f", "i", "n",
      "d", "i", "n", "g", "s", " ", "f", "o", "u", "n", "d", " ", "i", "n",
      " ", "s", "p", "e", "c", "i", "f", "i", "c", "a", "t", "i", "o", "n",
      ".", "*", "\n">>

Sno_open_questions ==
    <<"*", "N", "o", " ", "o", "p", "e", "n", " ", "q", "u", "e", "s", "t",
      "i", "o", "n", "s", " ", "f", "o", "u", "n", "d", " ", "i", "n", " ",
      "s", "p", "e", "c", "i", "f", "i", "c", "a", "t", "i", "o", "n", ".",
      "*", "\n">>

Sspec_title ==
    <<"#", " ", "T", "e", "c", "h", "n", "i", "c", "a", "l", " ", "S", "p",
      "e", "c", "i", "f", "i", "c", "a", "t", "i", "o", "n", "\n", "\n", "T",
      "h", "i", "s", " ", "d", "o", "c", "u", "m", "e", "n", "t", " ", "p",
      "r", "o", "v", "i", "d", "e", "s", " ", "d", "e", "t", "a", "i", "l",
      "e", "d", " ", "t", "e", "c", "h", "n", "i", "c", "a", "l", " ", "s",
      "p", "e", "c", "i", "f", "i", "c", "a", "t", "i", "o", "n", "s", " ",
      "b", "a", "s", "e", "d", " ", "o", "n", " ", "t", "h", "e", " ", "P",
      "r", "o", "d", "u", "c", "t", " ", "R", "e", "q", "u", "i", "r", "e",
      "m", "e", "n", "t", "s", " ", "D", "o", "c", "u", "m", "e", "n", "t",
      " ", "(", "P", "R", "D", ")", ".", "\n", "\n">>

Sunrealistic_assumptions ==
    <<"U", "n", "r", "e", "a", "l", "i", "s", "t", "i", "c", " ", "t", "e",
      "c", "h", "n", "i", "c", "a", "l", " ", "a", "s", "s", "u", "m", "p",
      "t", "i", "o", "n", "s">>

Sarchitecture_corrected ==
    <<"T", "e", "c", "h", "n", "i", "c", "a", "l", " ", "a", "r", "c", "h",
      "i", "t", "e", "c", "t", "u", "r", "e", " ", "c", "o", "r", "r", "e",
      "c", "t", "e", "d", " ", "b", "a", "s", "e", "d", " ", "o", "n", " ",
      "v", "a", "l", "i", "d", "a", "t", "i", "o", "n", " ", "f", "i", "n",
      "d", "i", "n", "g", "s">>

Sreview_corrected ==
    <<"R", "e", "v", "i", "e", "w", " ", "c", "o", "r", "r", "e", "c", "t",
      "e", "d", " ", "a", "r", "c", "h", "i", "t", "e", "c", "t", "u", "r",
      "e", " ", "f", "o", "r", " ", "f", "i", "n", "a", "l", " ", "a", "p",
      "p", "r", "o", "v", "a", "l">>

Sinstagram_limitation ==
    <<"I", "n", "s", "t", "a", "g", "r", "a", "m", " ", "A", "P", "I", " ",
      "t", "r", "a", "n", "s", "c", "r", "i", "p", "t", " ", "l", "i", "m",
      "i", "t", "a", "t", "i", "o", "n">>

Smissing_multimodal ==
    <<"M", "i", "s", "s", "i", "n", "g", " ", "m", "u", "l", "t", "i", "m",
      "o", "d", "a", "l", " ", "p", "r", "o", "c", "e", "s", "s", "i", "n",
      "g">>
Kinstagram ==
    <<"i", "n", "s", "t", "a", "g", "r", "a", "m">>

Ktranscript ==
    <<"t", "r", "a", "n", "s", "c", "r", "i", "p", "t">>

Kdoes_not_provide ==
    <<"d", "o", "e", "s", " ", "n", "o", "t", " ", "p", "r", "o", "v", "i",
      "d", "e">>

Klimitation ==
    <<"l", "i", "m", "i", "t", "a", "t", "i", "o", "n">>

Kmissing ==
    <<"m", "i", "s", "s", "i", "n", "g">>

Kspeech_to_text ==
    <<"s", "p", "e", "e", "c", "h", "-", "t", "o", "-", "t", "e", "x", "t">>

Kocr ==
    <<"o", "c", "r">>

Kunrealistic ==
    <<"u", "n", "r", "e", "a", "l", "i", "s", "t", "i", "c">>

Kassumption ==
    <<"a", "s", "s", "u", "m", "p", "t", "i", "o", "n">>

\* what prd_auto.py and create_validation_file write under Corrections
\* Applied
PendingCorrections ==
    Scorrections_applied \o <<NL, NL>> \o Scorrections_note
      \o Sarchitecture_changes \o Spending \o <<NL>>
      \o Sissues_resolved \o Spending \o <<NL>>
      \o Sremaining_issues \o Spending

extract_validation_findings(content) ==
    LET cto == ReSearchSection(content, Sheader \o Scto_validation)
        tech == ReSearchSection(content,
                                Sheader \o Stechnical_validation_decisions)
        open == ReSearchSection(content, Sheader \o Sopen_questions)
    IN  [cto_validation |-> cto.group,
         technical_validation |-> tech.group,
         open_questions |-> open.group,
         assumptions |-> << >>,
         issues_concerns |-> << >>]

\* the text create_validation_file writes
create_validation_file(validation_data) ==
    Stracking_title
      \o Sheader \o Scto_validation \o <<NL, NL>>
      \o (IF validation_data.cto_validation # << >>
          THEN validation_data.cto_validation ELSE Sno_cto)
      \o <<NL, NL>>
      \o Sheader \o Stechnical_validation_findings \o <<NL, NL>>
      \o (IF validation_data.technical_validation # << >>
          THEN validation_data.technical_validation ELSE Sno_technical)
      \o <<NL, NL>>
      \o Sheader \o Sopen_questions \o <<NL, NL>>
      \o (IF validation_data.open_questions # << >>
          THEN validation_data.open_questions ELSE Sno_open_questions)
      \o <<NL, NL>>
      \o PendingCorrections

\* corrections_needed, from the keywords in the lower-cased tracking file
analyze_validation_findings(content) ==
    LET low == StrLower(content)
        has(k) == Contains(low, k)
    IN  (IF has(Kinstagram) /\ has(Ktranscript)
            /\ (has(Kdoes_not_provide) \/ has(Klimitation))
         THEN <<Sinstagram_limitation>> ELSE << >>)
        \o (IF has(Kmissing) /\ (has(Kspeech_to_text) \/ has(Kocr))
            THEN <<Smissing_multimodal>> ELSE << >>)
        \o (IF has(Kunrealistic) \/ has(Kassumption)
            THEN <<Sunrealistic_assumptions>> ELSE << >>)

\* the list items "- item" of one subsection, joined by newlines
BulletList(items) ==
    StrJoin([i \in 1..Len(items) |-> <<"-", " ">> \o items[i]], <<NL>>)

\* corrections_section of update_validation_tracking
corrections_section(corrections_applied) ==
    <<NL>> \o Scorrections_applied \o <<NL, NL>>
      \o Sarchitecture_changes
      \o BulletList(corrections_applied.architecture_changes) \o <<NL, NL>>
      \o Sissues_resolved
      \o BulletList(corrections_applied.issues_resolved) \o <<NL, NL>>
      \o Sremaining_issues
      \o BulletList(corrections_applied.remaining_issues) \o <<NL>>

\* the text update_validation_tracking writes back
update_validation_tracking(content, corrections_applied) ==
    ReSubSection(content, Scorrections_applied,
                 corrections_section(corrections_applied))

\* corrections_applied of main
corrections_applied_of(corrections_needed) ==
    [architecture_changes |-> corrections_needed,
     issues_resolved |-> <<Sarchitecture_corrected>>,
     remaining_issues |-> <<Sreview_corrected>>]

Svalidation_word ==
    <<"V", "a", "l", "i", "d", "a", "t", "i", "o", "n">>

Scto_word ==
    <<"C", "T", "O">>

Suse_oauth ==
    <<"U", "s", "e", " ", "O", "A", "u", "t", "h">>

Swith_subsection ==
    <<"I", "n", "t", "r", "o", "\n", "#", "#", "#", " ", "R", "i", "s", "k",
      "\n", "M", "i", "s", "s", "i", "n", "g", " ", "O", "C", "R">>

Sinline_hashes ==
    <<"S", "e", "e", " ", "C", "#", "#", " ", "n", "o", "t", "e", "s">>

Ssubheader ==
    <<"#", "#", "#", " ">>

\* the sections of a specification template: the three the extractor looks
\* for and one it does not
SpecSectionNames ==
    {Scto_validation, Stechnical_validation_decisions, Sopen_questions,
     Skey_components}

\* section_outputs is a dict: each name occurs once
SectionLists ==
    {s \in UNION {[1..n -> SpecSectionNames] : n \in 0..MaxSections} :
        \A i, j \in 1..Len(s) : i # j => s[i] # s[j]}

\* what the model returns for a section: plain text, text with a '### '
\* subsection, text with '##' inside a line
FindingBodies == {Suse_oauth, Swith_subsection, Sinline_hashes}

\* "Validation" in section or "CTO" in section
IsValidationSection(section) ==
    Contains(section, Svalidation_word) \/ Contains(section, Scto_word)

\* f"## {section}\n\n{content}\n\n"
SectionBlock(section, content) ==
    Sheader \o section \o <<NL, NL>> \o content \o <<NL, NL>>

\* the specification file spec_auto.py writes
spec_output(sections, outputs) ==
    Sspec_title
      \o Concat([i \in 1..Len(sections) |->
                   IF IsValidationSection(sections[i]) THEN << >>
                   ELSE SectionBlock(sections[i], outputs[i])])

\* a specification file that holds every section of the template
spec_document(sections, outputs) ==
    Sspec_title
      \o Concat([i \in 1..Len(sections) |->
                   SectionBlock(sections[i], outputs[i])])

\* add_validation_finding: f"### {section}\n" and f"{finding}\n\n"
add_validation_finding(section, finding) ==
    Ssubheader \o section \o <<NL>> \o finding \o <<NL, NL>>

\* the tracking file at the end of prd_auto.py, for a PRD template without
\* validation sections
prd_tracking_file == Stracking_title \o Sfindings_by_section \o PendingCorrections

\* the outputs of the validation sections, in template order
RECURSIVE FindingsOf(_, _)
FindingsOf(sections, outputs) ==
    IF Len(sections) = 0 THEN << >>
    ELSE (IF IsValidationSection(Head(sections)) THEN <<Head(outputs)>>
          ELSE << >>)
           \o FindingsOf(Tail(sections), Tail(outputs))

NoData ==
    [cto_validation |-> << >>, technical_validation |-> << >>,
     open_questions |-> << >>, assumptions |-> << >>,
     issues_concerns |-> << >>]

\* the pipeline of scripts/master_with_corrections.py starts with
\* prd_auto.py; validation_extractor.py and architecture_corrector.py are
\* also run by hand on a specification file
InitTracking ==
    /\ VerIdle
    /\ OrchIdle
    /\ StageIdle
    /\ \E origin \in {"pipeline", "spec_file"}, sections \in SectionLists,
          key \in BOOLEAN :
          \E outputs \in [1..Len(sections) -> FindingBodies] :
             /\ fn_args = [kind |-> "tracking", origin |-> origin,
                           sections |-> sections, outputs |-> outputs,
                           key |-> key]
             /\ fn_call = [fn |-> IF origin = "pipeline" THEN "start"
                                  ELSE "spec_auto",
                           spec_file |-> IF origin = "pipeline" THEN << >>
                                         ELSE spec_document(sections, outputs),
                           tracking_file |-> << >>,
                           previous |-> << >>,
                           findings |-> << >>,
                           validation_data |-> NoData,
                           corrections_needed |-> << >>,
                           remote |-> << >>,
                           written |-> << >>,
                           pass |-> 0]

\* prd_auto.py: init_validation_file and the final sections
TR_PrdAuto ==
    /\ fn_args.kind = "tracking"
    /\ fn_call.fn = "start"
    /\ fn_call' = [fn_call EXCEPT
                     !.fn = "prd_auto",
                     !.tracking_file = prd_tracking_file,
                     !.written = @ \o <<FileWrite(Svalidation_tracking),
                                        FileWrite(Sprd_final)>>]
    /\ UNCHANGED <<verVars, orchVars, stageVars, fn_args>>

\* spec_auto.py: each validation section is appended to the tracking file
\* and left out of the specification file
TR_SpecAuto ==
    /\ fn_args.kind = "tracking"
    /\ fn_call.fn = "prd_auto"
    /\ LET sections == fn_args.sections
           outputs == fn_args.outputs
       IN  fn_call' = [fn_call EXCEPT
                 !.fn = "spec_auto",
                 !.tracking_file = @ \o
                     Concat([i \in 1..Len(sections) |->
                               IF IsValidationSection(sections[i])
                               THEN add_validation_finding(sections[i],
                                                           outputs[i])
                               ELSE << >>]),
                 !.findings = FindingsOf(sections, outputs),
                 !.spec_file = spec_output(sections, outputs),
                 !.written = @ \o <<FileWrite(Svalidation_tracking),
                                    FileWrite(Stech_spec_final)>>]
    /\ UNCHANGED <<verVars, orchVars, stageVars, fn_args>>

\* validation_extractor.py main: the findings are read from the
\* specification file and the tracking file is written anew
TR_Extract ==
    /\ fn_args.kind = "tracking"
    /\ fn_call.fn = "spec_auto"
    /\ LET validation_data == extract_validation_findings(fn_call.spec_file)
       IN  fn_call' = [fn_call EXCEPT
                 !.fn = "validation_extractor",
                 !.validation_data = validation_data,
                 !.tracking_file = create_validation_file(validation_data),
                 !.written = Append(@, FileWrite(Svalidation_tracking))]
    /\ UNCHANGED <<verVars, orchVars, stageVars, fn_args>>

\* --skip-corrections: the pipeline ends after the extraction
TR_SkipCorrections ==
    /\ fn_args.kind = "tracking"
    /\ fn_args.origin = "pipeline"
    /\ fn_call.fn = "validation_extractor"
    /\ fn_call' = [fn_call EXCEPT !.fn = "done"]
    /\ UNCHANGED <<verVars, orchVars, stageVars, fn_args>>

\* architecture_corrector.py main: analyze_validation_findings, and the
\* return when nothing needs correction
TR_Analyze ==
    /\ fn_args.kind = "tracking"
    /\ fn_call.fn = "validation_extractor"
    /\ LET corrections_needed ==
               analyze_validation_findings(fn_call.tracking_file)
       IN  fn_call' = [fn_call EXCEPT
                 !.fn = IF corrections_needed = << >> THEN "done"
                        ELSE "analyze_validation_findings",
                 !.corrections_needed = corrections_needed]
    /\ UNCHANGED <<verVars, orchVars, stageVars, fn_args>>

\* apply_architecture_corrections: the key check and the remote call
TR_Apply ==
    /\ fn_args.kind = "tracking"
    /\ fn_call.fn = "analyze_validation_findings"
    /\ IF ~fn_args.key
       THEN fn_call' = [fn_call EXCEPT !.fn = "failed"]
       ELSE \E ok \in BOOLEAN :
               fn_call' = [fn_call EXCEPT
                   !.fn = IF GenerationFailed(ok) THEN "failed"
                          ELSE "apply_architecture_corrections",
                   !.remote = Append(@, RemoteCall("chat.completions.create",
                                                   ok))]
    /\ UNCHANGED <<verVars, orchVars, stageVars, fn_args>>

\* update_files_with_corrections
TR_UpdateFiles ==
    /\ fn_args.kind = "tracking"
    /\ fn_call.fn = "apply_architecture_corrections"
    /\ fn_call' = [fn_call EXCEPT
                     !.fn = "update_files_with_corrections",
                     !.written = @ \o
                         <<FileWrite(corrected_name(Sprd_final)),
                           FileWrite(corrected_name(Stech_spec_final))>>]
    /\ UNCHANGED <<verVars, orchVars, stageVars, fn_args>>

\* update_validation_tracking: the first run follows the corrections, a
\* later run repeats it with the same corrections
TR_UpdateTracking ==
    /\ fn_args.kind = "tracking"
    /\ \/ fn_call.fn = "update_files_with_corrections"
       \/ fn_call.fn = "update_validation_tracking" /\ fn_call.pass < MaxPasses
    /\ fn_call' = [fn_call EXCEPT
                     !.fn = "update_validation_tracking",
                     !.previous = fn_call.tracking_file,
                     !.tracking_file =
                         update_validation_tracking(
                             fn_call.tracking_file,
                             corrections_applied_of(fn_call.corrections_needed)),
                     !.written = Append(@, FileWrite(Svalidation_tracking)),
                     !.pass = @ + 1]
    /\ UNCHANGED <<verVars, orchVars, stageVars, fn_args>>

NextTracking ==
    \/ TR_PrdAuto
    \/ TR_SpecAuto
    \/ TR_Extract
    \/ TR_SkipCorrections
    \/ TR_Analyze
    \/ TR_Apply
    \/ TR_UpdateFiles
    \/ TR_UpdateTracking

SpecTracking == InitTracking /\ [][NextTracking]_vars

\* the field of validation_data that holds the section of a header
FindingField(name) ==
    IF name = Scto_validation THEN "cto_validation"
    ELSE IF name = Stechnical_validation_decisions THEN "technical_validation"
    ELSE "open_questions"

Extracted == fn_args.kind = "tracking" /\ fn_call.fn = "validation_extractor"

\* C23: extract_validation_findings returns, for each of the three headers
\* present in the specification, the whole text between that header and the
\* next '## ' line or the end of the document, '### ' subsections and '##'
\* inside a line included.
C23_WholeSectionText ==
    Extracted =>
        LET lines == StrSplit(fn_call.spec_file, <<NL>>)
        IN  \A name \in {Scto_validation, Stechnical_validation_decisions,
                         Sopen_questions} :
               \A i \in HeadersOf(lines, name) :
                  fn_call.validation_data[FindingField(name)]
                      = TextBetween(lines, i)

PipelineEnded ==
    /\ fn_args.kind = "tracking"
    /\ fn_args.origin = "pipeline"
    /\ fn_call.fn \in {"done", "failed", "update_validation_tracking"}

\* C25: when the pipeline of scripts/master_with_corrections.py ends, every
\* validation finding the spec stage generated (the output of each template
\* section named with "Validation" or "CTO") is in the validation tracking
\* file.
C25_FindingsKept ==
    PipelineEnded =>
        \A i \in 1..Len(fn_call.findings) :
            Contains(fn_call.tracking_file, fn_call.findings[i])

\* the specification file holds none of the three validation headers
NoValidationSections ==
    /\ fn_args.kind = "tracking"
    /\ fn_call.fn \notin {"start", "prd_auto", "spec_auto"}
    /\ \A name \in {Scto_validation, Stechnical_validation_decisions,
                    Sopen_questions} :
          HeadersOf(StrSplit(fn_call.spec_file, <<NL>>), name) = {}

\* C26: for a specification without validation sections,
\* architecture_corrector.py finds nothing to correct: corrections_needed is
\* empty, no remote call is made, and neither a *_corrected.md file nor the
\* tracking file is written by it.
C26_NothingToCorrect ==
    NoValidationSections =>
        /\ fn_call.corrections_needed = << >>
        /\ fn_call.remote = << >>
        /\ fn_call.pass = 0
        /\ \A i \in 1..Len(fn_call.written) :
              ~EndsWith(fn_call.written[i].target, Scorrected)

\* a line of the fixed text, without its newline
Line(text) == SubSeq(text, 1, Len(text) - 1)

\* how many lines of the text are the given line
LineCount(content, line) ==
    LET lines == StrSplit(content, <<NL>>)
    IN  Cardinality({i \in 1..Len(lines) : lines[i] = line})

\* C27: after update_validation_tracking the tracking file holds exactly one
\* '## Corrections Applied' section with exactly one of each of its three
\* subsections and no line '- *Pending correction analysis*'; a second run
\* with the same corrections leaves the file unchanged.
C27_OneCorrectionsSection ==
    (fn_args.kind = "tracking" /\ fn_call.pass >= 1) =>
        /\ LineCount(fn_call.tracking_file, Scorrections_applied) = 1
        /\ LineCount(fn_call.tracking_file, Line(Sarchitecture_changes)) = 1
        /\ LineCount(fn_call.tracking_file, Line(Sissues_resolved)) = 1
        /\ LineCount(fn_call.tracking_file, Line(Sremaining_issues)) = 1
        /\ LineCount(fn_call.tracking_file, Line(Spending)) = 0
        /\ fn_call.pass >= 2 => fn_call.tracking_file = fn_call.previous


\* ------------------------------------------------------------------------
\* Claims about the preflight call of the stage scripts
\* ------------------------------------------------------------------------
PreflightRaised(error) ==
    \E i \in 1..Len(st_remote) :
        st_remote[i].call = "models.list" /\ st_remote[i].raised = error

\* C24: when client.models.list() fails with an authentication error the
\* script exits with "Invalid API key or no billing set up.", when it fails
\* with a rate-limit error it exits with "API quota exhausted. Add credits
\* in the dashboard."; in both cases no generation call is made.
C24_PreflightMessages ==
    /\ PreflightRaised("authentication") =>
          /\ st_exit = 1
          /\ st_msg = "Invalid API key or no billing set up."
    /\ PreflightRaised("rate_limit") =>
          /\ st_exit = 1
          /\ st_msg = "API quota exhausted. Add credits in the dashboard."
    /\ (PreflightRaised("authentication") \/ PreflightRaised("rate_limit")) =>
          \A i \in 1..Len(st_remote) :
              st_remote[i].call # "chat.completions.create"


\* ------------------------------------------------------------------------
\* scripts/milestones_auto.py: the milestone blocks of an action plan
\* ------------------------------------------------------------------------
MaxBlocks == 2

Smilestone_start ==
    <<"<", "!", "-", "-", " ", "M", "I", "L", "E", "S", "T", "O", "N", "E",
      "_", "S", "T", "A", "R", "T", " ", "-", "-", ">">>

Smilestone_end ==
    <<"<", "!", "-", "-", " ", "M", "I", "L", "E", "S", "T", "O", "N", "E",
      "_", "E", "N", "D", " ", "-", "-", ">">>

Smilestone_header ==
    <<"#", "#", " ", "M", "i", "l", "e", "s", "t", "o", "n", "e">>

Smilestone_label ==
    <<"M", "i", "l", "e", "s", "t", "o", "n", "e", " ">>

Sgoal ==
    <<"*", "*", "G", "o", "a", "l", ":", "*", "*", " ", "g">>

Sinline_title ==
    <<" ", "-", " ", "C", "#", "#", " ", "A", "P", "I">>

\* re.findall(r'<!-- MILESTONE_START -->(.*?)<!-- MILESTONE_END -->',
\* content, re.DOTALL): from the first start marker to the first end marker
\* after it, then on from behind that end marker
RECURSIVE FindAllBlocks(_)
FindAllBlocks(content) ==
    LET a == FindFrom(content, Smilestone_start, 1)
        b == IF a = 0 THEN 0
             ELSE FindFrom(content, Smilestone_end, a + Len(Smilestone_start))
    IN  IF a = 0 \/ b = 0 THEN << >>
        ELSE <<SubSeq(content, a + Len(Smilestone_start), b - 1)>>
               \o FindAllBlocks(SubSeq(content, b + Len(Smilestone_end),
                                       Len(content)))

\* the name of the block at index i of the matches
milestone_name(milestone_content, i) ==
    LET lines == StrSplit(milestone_content, <<NL>>)
        headers == {k \in 1..Len(lines) : StartsWith(lines[k], Smilestone_header)}
    IN  IF headers # {}
        THEN Strip(StrReplace(lines[CHOOSE k \in headers :
                                       \A j \in headers : k <= j],
                              Sheader, << >>))
        ELSE Smilestone_label \o StrOfInt(i)

extract_milestones_from_action_plan(action_plan_content) ==
    LET matches == FindAllBlocks(action_plan_content)
    IN  [k \in 1..Len(matches) |->
            [name |-> milestone_name(Strip(matches[k]), k - 1),
             content |-> Strip(matches[k])]]

\* the shapes of a milestone block: with a '## Milestone N' header, without
\* one, with '##' inside the header line, and without its end marker
BlockShapes == {"header", "plain", "inline", "open"}

BlockTitle(shape, n) ==
    Smilestone_header \o <<" ">> \o StrOfInt(n)
      \o (IF shape = "inline" THEN Sinline_title ELSE << >>)

BlockBody(n) == Sgoal \o StrOfInt(n)

\* the text between the markers of block n
BlockInside(shape, n) ==
    <<NL>> \o (IF shape = "plain" THEN << >> ELSE BlockTitle(shape, n) \o <<NL>>)
      \o BlockBody(n) \o <<NL>>

BlockText(shape, n) ==
    Smilestone_start \o BlockInside(shape, n)
      \o (IF shape = "open" THEN << >> ELSE Smilestone_end \o <<NL>>)

\* an action plan: the '## Milestones' header, or none, and the blocks
action_plan(with_header, shapes) ==
    (IF with_header THEN <<NL>> \o Sheader \o Smilestones \o <<NL, NL>>
     ELSE << >>)
      \o Concat([n \in 1..Len(shapes) |-> BlockText(shapes[n], n)])

InitMilestones ==
    /\ VerIdle
    /\ OrchIdle
    /\ StageIdle
    /\ \E with_header \in BOOLEAN,
          shapes \in UNION {[1..n -> BlockShapes] : n \in 0..MaxBlocks} :
          fn_args = [kind |-> "action_plan", with_header |-> with_header,
                     shapes |-> shapes,
                     content |-> action_plan(with_header, shapes)]
    /\ fn_call = NoFnCall

M_ExtractMilestones ==
    /\ fn_args.kind = "action_plan"
    /\ fn_call' = [fn |-> "extract_milestones_from_action_plan",
                   result |-> extract_milestones_from_action_plan(
                                  fn_args.content)]
    /\ UNCHANGED <<verVars, orchVars, stageVars, fn_args>>

\* generate_comprehensive_milestone_specs: the action plan part of the prompt
M_CriticalActionPlan ==
    /\ fn_args.kind = "action_plan"
    /\ fn_call' = [fn |-> "critical_action_plan",
                   result |-> extract_critical_sections(fn_args.content,
                                                        "action_plan")]
    /\ UNCHANGED <<verVars, orchVars, stageVars, fn_args>>

NextMilestones ==
    \/ M_ExtractMilestones
    \/ M_CriticalActionPlan

SpecMilestones == InitMilestones /\ [][NextMilestones]_vars

\* C28: for an action plan whose '## Milestones' section holds blocks between
\* the two markers, each beginning with a '## Milestone N' header, the text
\* extract_critical_sections keeps for the prompt holds the body of every
\* block.
C28_MilestoneBodiesKept ==
    (/\ fn_args.kind = "action_plan"
     /\ fn_call.fn = "critical_action_plan"
     /\ fn_args.with_header
     /\ \A n \in 1..Len(fn_args.shapes) : fn_args.shapes[n] = "header") =>
        \A n \in 1..Len(fn_args.shapes) :
            Contains(fn_call.result, BlockBody(n))

\* the blocks that have both markers, in document order
RECURSIVE ClosedBlocks(_, _)
ClosedBlocks(shapes, n) ==
    IF n > Len(shapes) THEN << >>
    ELSE (IF shapes[n] = "open" THEN << >> ELSE <<n>>)
           \o ClosedBlocks(shapes, n + 1)

\* the name the claim gives to the entry at index i
ClaimedName(content, i) ==
    LET lines == StrSplit(content, <<NL>>)
        headers == {k \in 1..Len(lines) : StartsWith(lines[k], Smilestone_header)}
        first == lines[CHOOSE k \in headers : \A j \in headers : k <= j]
    IN  IF headers # {} THEN Strip(SubSeq(first, Len(Sheader) + 1, Len(first)))
        ELSE Smilestone_label \o StrOfInt(i)

\* C30: extract_milestones_from_action_plan returns one entry per pair of
\* markers, in document order; the content of an entry is the trimmed text
\* between its markers and holds neither marker; a start marker without an
\* end marker yields no entry; the name is the first '## Milestone' line
\* of the block without the '## ' prefix, or "Milestone <i>" with the
\* zero-based index i.
C30_OneEntryPerBlock ==
    (fn_args.kind = "action_plan"
       /\ fn_call.fn = "extract_milestones_from_action_plan") =>
        LET closed == ClosedBlocks(fn_args.shapes, 1)
            result == fn_call.result
        IN  /\ Len(result) = Len(closed)
            /\ \A k \in 1..Len(result) :
                  /\ ~Contains(result[k].content, Smilestone_start)
                  /\ ~Contains(result[k].content, Smilestone_end)
                  /\ k <= Len(closed) =>
                        result[k].content
                            = Strip(BlockInside(fn_args.shapes[closed[k]],
                                                closed[k]))
                  /\ result[k].name = ClaimedName(result[k].content, k - 1)


\* ------------------------------------------------------------------------
\* Claim about the temporary file of scripts/master_auto.py
\* ------------------------------------------------------------------------

\* C29: when scripts/master_auto.py has written the product idea to a
\* temporary file, that file has been deleted by the time the orchestrator
\* exits, on every exit path.
C29_TempFileDeleted ==
    (orch = "scripts_master" /\ pc = "done" /\ temp_files # {}) =>
        ~tmp_exists

====
